---- MODULE Spec2Model ----
(***************************************************************************)
(* Model of the Vitis backend's build / stitch orchestration and of the    *)
(* aggregation of per-subgraph synthesis reports                           *)
(* (hls4ml/backends/vitis/vitis_backend.py).                               *)
(*                                                                         *)
(* Python values are modelled as follows.                                  *)
(*   - a dict is a function whose DOMAIN is the set of keys present;       *)
(*   - a report (the nested 'CSynthesisReport' dict) is an object on the   *)
(*     heap, referred to by its address, so that aliasing and in-place     *)
(*     mutation are observable;                                            *)
(*   - a decimal text such as '5.00' is the record [mant |-> 500,          *)
(*     dec |-> 2]: the digits and the number of digits after the point;    *)
(*   - a float is an integer number of 10^-FloatDigits units.              *)
(***************************************************************************)
EXTENDS Integers, Sequences, FiniteSets, TLC

VARIABLES
    build_results,  \* the report mapping handed to the aggregator / to stitch_design
    heap,           \* address -> report dict (the Python objects holding reports)
    pc,             \* position of the running call
    ret,            \* outcome of the call: returned value or raised exception
    call,           \* the running call: operation and arguments
    steps,          \* the steps the running call has taken so far, in order
    child,          \* the external tool's process: spawn count, state, exit code
    parsed,         \* how many times the running call has parsed the report
    fs,             \* the files present in the stitched-design directory
    sim_data,       \* stitch_design's local sim_data
    stitched_report, \* stitch_design's local stitched_report
    testbench,      \* the text generate_verilog_testbench has written
    tb,             \* the registers and wires of the running testbench
    log,            \* the rows of testbench_log.csv
    stdout,         \* what read_testbench_log has printed
    fout            \* the lines the writer has written to its output file

benchVars == <<testbench, tb, log, stdout, fout>>

vars ==
    <<build_results, heap, pc, ret, call, steps, child, parsed, fs, sim_data, stitched_report,
      testbench, tb, log, stdout, fout>>

orchVars == <<call, steps, child, parsed, fs, sim_data, stitched_report>>

(***************************************************************************)
(* Bounds of the model.                                                    *)
(***************************************************************************)
MaxSubgraphs == 2
FloatDigits == 4
MaxRows == 3
MaxIndex == 2
MaxDepth == 2
MaxStalls == 1
MaxTransfers == 1
MaxIntBits == 3
MaxFactor == 2
MaxWeights == 2
MaxLayers == 2

(***************************************************************************)
(* Python values.                                                          *)
(***************************************************************************)
Text(m, d) == [mant |-> m, dec |-> d]

EmptyDict == [x \in {} |-> x]

Get(d, k, default) == IF k \in DOMAIN d THEN d[k] ELSE default

Put(d, k, v) == [x \in (DOMAIN d) \cup {k} |-> IF x = k THEN v ELSE d[x]]

RECURSIVE Pow10(_)
Pow10(n) == IF n <= 0 THEN 1 ELSE 10 * Pow10(n - 1)

Max2(a, b) == IF a >= b THEN a ELSE b

\* float(text): the value of a decimal text, in units of 10^-FloatDigits.
ParseFloat(t) == t.mant * Pow10(FloatDigits - t.dec)

\* int(text) of a text without a decimal point.
ParseInt(t) == t.mant

\* str(n) of an int.
Str(n) == Text(n, 0)

\* A 2-decimal rendering: what a wrong format specification would give.
Format3f_TwoDecimals(x, up) ==
    LET unit == Pow10(FloatDigits - 2)
        q == x \div unit
        r == x % unit
    IN  Text(IF 2 * r > unit \/ (2 * r = unit /\ up) THEN q + 1 ELSE q, 2)

\* f"{x:.3f}": x rounded to the nearest multiple of 0.001, three decimals
\* written.  The float nearest to a decimal that ends in a tie (...5) lies
\* above or below the tie depending on its binary expansion: up says which.
Format3f(x, up) ==
    LET unit == Pow10(FloatDigits - 3)
        q == x \div unit
        r == x % unit
    IN  Text(IF 2 * r > unit \/ (2 * r = unit /\ up) THEN q + 1 ELSE q, 3)

(***************************************************************************)
(* Report fields.                                                          *)
(***************************************************************************)
ResourceKeys == {"BRAM_18K", "DSP", "FF", "LUT", "URAM"}

AvailableKeys ==
    {"AvailableBRAM_18K", "AvailableDSP", "AvailableFF", "AvailableLUT", "AvailableURAM"}

ReportKeys ==
    {"TargetClockPeriod", "EstimatedClockPeriod", "WorstLatency"}
        \cup ResourceKeys \cup AvailableKeys

keys_to_sum == <<"BRAM_18K", "DSP", "FF", "LUT", "URAM", "WorstLatency">>

\* The literal '1' in place of '0'.
DEFAULT_COUNT_One == Text(1, 0)

\* The literal '0' given to .get for a missing count.
DEFAULT_COUNT == Text(0, 0)

\* The literal '5.00' given to .get for a missing clock period.
DEFAULT_CLOCK == Text(500, 2)

\* The literals given to .get for the missing Available* fields.
DEFAULT_AVAILABLE(k) ==
    CASE k = "AvailableBRAM_18K" -> Text(5376, 0)
      [] k = "AvailableDSP"      -> Text(12288, 0)
      [] k = "AvailableFF"       -> Text(3456000, 0)
      [] k = "AvailableLUT"      -> Text(1728000, 0)
      [] k = "AvailableURAM"     -> Text(1280, 0)

(***************************************************************************)
(* _aggregate_build_results.                                               *)
(***************************************************************************)
NoneMapping == [isNone |-> TRUE, items |-> <<>>]

Mapping(items) == [isNone |-> FALSE, items |-> items]

\* A guard that forgets the empty mapping.
IsEmptyInput_NoneOnly(br) == br.isNone

\* build_results is None or len(build_results) == 0
IsEmptyInput(br) == br.isNone \/ Len(br.items) = 0

\* next(iter(build_results))
first_subgraph(br) == br.items[1].key

\* A baseline taken from the last subgraph.
base_entry_Last(br) == br.items[Len(br.items)]

\* build_results[first_subgraph]
base_entry(br) == br.items[1]

\* A loop that does not skip the first subgraph.
OtherSubgraphs_NoSkip(br) == br.items

\* for subgraph, data in build_results.items(): if subgraph == first_subgraph: continue
OtherSubgraphs(br) == SelectSeq(br.items, LAMBDA e : e.key # first_subgraph(br))

\* data.get('CSynthesisReport', {})
ReportOrEmpty(data, h) ==
    IF "CSynthesisReport" \in DOMAIN data THEN h[data["CSynthesisReport"]] ELSE EmptyDict

\* The string-valued entries of final_report, all taken from base_report.
BaseTexts(base) ==
    [k \in {"TargetClockPeriod"} \cup AvailableKeys |->
        IF k = "TargetClockPeriod"
            THEN Get(base, k, DEFAULT_CLOCK)
            ELSE Get(base, k, DEFAULT_AVAILABLE(k))]

RECURSIVE InitKeys(_, _, _)
\* for k in keys_to_sum: final_report[k] = int(base_report.get(k, '0'))
InitKeys(num, base, ks) ==
    IF ks = <<>> THEN num
    ELSE InitKeys(Put(num, Head(ks), ParseInt(Get(base, Head(ks), DEFAULT_COUNT))), base, Tail(ks))

\* The number-valued entries of final_report after the first subgraph.
BaseNumbers(base) ==
    InitKeys(
        [k \in {"EstimatedClockPeriod", "WorstLatency"} |->
            IF k = "EstimatedClockPeriod"
                THEN ParseFloat(Get(base, k, DEFAULT_CLOCK))
                ELSE ParseInt(Get(base, k, DEFAULT_COUNT))],
        base, keys_to_sum)

RECURSIVE AddKeys(_, _, _)
\* for k in keys_to_sum: final_report[k] += int(report.get(k, '0'))
AddKeys(num, report, ks) ==
    IF ks = <<>> THEN num
    ELSE AddKeys([num EXCEPT ![Head(ks)] = @ + ParseInt(Get(report, Head(ks), DEFAULT_COUNT))],
                 report, Tail(ks))

\* A loop body that never raises the estimated clock period.
UpdateFinal_KeepsFirstClock(num, report) ==
    LET n2 == [num EXCEPT !["WorstLatency"] =
                    Max2(@, ParseInt(Get(report, "WorstLatency", DEFAULT_COUNT)))]
    IN  AddKeys(n2, report, keys_to_sum)

\* The body of the loop over the other subgraphs.
UpdateFinal(num, report) ==
    LET est_cp == ParseFloat(Get(report, "EstimatedClockPeriod", DEFAULT_CLOCK))
        n1 == [num EXCEPT !["EstimatedClockPeriod"] = IF est_cp > @ THEN est_cp ELSE @]
        n2 == [n1 EXCEPT !["WorstLatency"] =
                    Max2(@, ParseInt(Get(report, "WorstLatency", DEFAULT_COUNT)))]
    IN  AddKeys(n2, report, keys_to_sum)

RECURSIVE AggregateOthers(_, _, _)
AggregateOthers(num, others, h) ==
    IF others = <<>> THEN num
    ELSE AggregateOthers(UpdateFinal(num, ReportOrEmpty(Head(others).data, h)), Tail(others), h)

\* Convert numbers back to strings.
RenderNumbers(num, up) ==
    [k \in DOMAIN num |->
        IF k = "EstimatedClockPeriod" THEN Format3f(num[k], up) ELSE Str(num[k])]

Merge(f, g) == [k \in (DOMAIN f) \cup (DOMAIN g) |-> IF k \in DOMAIN g THEN g[k] ELSE f[k]]

Outcome(kind, exc, value) == [kind |-> kind, exc |-> exc, value |-> value]

\* The outcome of _aggregate_build_results: the exception raised, or the
\* final_report built ("value" is final_report; EmptyDict with kind "empty"
\* stands for the early return {}).
aggregate_build_results(br, h, up) ==
    IF IsEmptyInput(br) THEN Outcome("empty", "", EmptyDict)
    ELSE IF br.isNone THEN Outcome("raise", "TypeError", EmptyDict)
    ELSE IF Len(br.items) = 0 THEN Outcome("raise", "StopIteration", EmptyDict)
    ELSE IF "CSynthesisReport" \notin DOMAIN base_entry(br).data
        THEN Outcome("raise", "KeyError", EmptyDict)
    ELSE
        LET base_report == h[base_entry(br).data["CSynthesisReport"]]
            num == AggregateOthers(BaseNumbers(base_report), OtherSubgraphs(br), h)
        IN  Outcome("return", "", Merge(BaseTexts(base_report), RenderNumbers(num, up)))

(***************************************************************************)
(* The heap.                                                               *)
(***************************************************************************)
SetMax(S) == CHOOSE x \in S : \A y \in S : y <= x

NewAddr(h) == IF DOMAIN h = {} THEN 1 ELSE SetMax(DOMAIN h) + 1

Store(h, a, v) == [x \in (DOMAIN h) \cup {a} |-> IF x = a THEN v ELSE h[x]]

\* final_report bound to base_report instead of a new dict.
FinalReportAddr_Alias(br, h) == base_entry(br).data["CSynthesisReport"]

\* final_report = {...}: a new dict object.
FinalReportAddr(br, h) == NewAddr(h)

\* The addresses of the reports the mapping refers to.
SourceAddrs(br) ==
    {br.items[i].data["CSynthesisReport"] :
        i \in {j \in 1..Len(br.items) : "CSynthesisReport" \in DOMAIN br.items[j].data}}

(***************************************************************************)
(* Inputs: report mappings of up to MaxSubgraphs subgraphs.  A report is   *)
(* one of three complete reports with no field, one field or every field   *)
(* removed; an entry may also lack the nested report altogether.           *)
(***************************************************************************)
Variants == 1..3

FullReport(v) ==
    [k \in ReportKeys |->
        CASE k = "TargetClockPeriod" ->
                (CASE v = 1 -> Text(500, 2) [] v = 2 -> Text(400, 2) [] OTHER -> Text(100, 1))
          [] k = "EstimatedClockPeriod" ->
                (CASE v = 1 -> Text(41234, 4) [] v = 2 -> Text(3650, 3) [] OTHER -> Text(41235, 4))
          [] k = "WorstLatency" ->
                (CASE v = 1 -> Text(100, 0) [] v = 2 -> Text(250, 0) [] OTHER -> Text(7, 0))
          [] k = "BRAM_18K" -> Text(2 + 2 * v, 0)
          [] k = "DSP" -> Text(20 + 20 * v, 0)
          [] k = "FF" -> Text(200 + 200 * v, 0)
          [] k = "LUT" -> Text(2000 + 2000 * v, 0)
          [] k = "URAM" -> Text(v - 1, 0)
          [] k = "AvailableBRAM_18K" -> Text(IF v = 2 THEN 4320 ELSE 5376, 0)
          [] k = "AvailableDSP" -> Text(IF v = 2 THEN 6840 ELSE 12288, 0)
          [] k = "AvailableFF" -> Text(IF v = 2 THEN 2364480 ELSE 3456000, 0)
          [] k = "AvailableLUT" -> Text(IF v = 2 THEN 1182240 ELSE 1728000, 0)
          [] k = "AvailableURAM" -> Text(IF v = 2 THEN 960 ELSE 1280, 0)]

Holes == {"none", "all"} \cup ReportKeys

EntryChoices ==
    {[v |-> v, hole |-> hl] : v \in Variants, hl \in Holes} \cup {[v |-> 1, hole |-> "nokey"]}

Restrict(f, S) == [x \in S |-> f[x]]

ReportOf(c) ==
    CASE c.hole = "none" -> FullReport(c.v)
      [] c.hole = "all" -> EmptyDict
      [] OTHER -> Restrict(FullReport(c.v), ReportKeys \ {c.hole})

\* Entry i of the mapping holds the report at address i.
MkMapping(ch) ==
    Mapping([i \in DOMAIN ch |->
        [key |-> i,
         data |-> IF ch[i].hole = "nokey" THEN EmptyDict
                  ELSE [k \in {"CSynthesisReport"} |-> i]]])

MkHeap(ch) == [a \in {i \in DOMAIN ch : ch[i].hole # "nokey"} |-> ReportOf(ch[a])]

NoOutcome == Outcome("none", "", EmptyDict)

(***************************************************************************)
(* Calls and their environment.                                            *)
(***************************************************************************)
Projects == {"myproject", "graph1"}

ReturnCodes == {0, 1}

PyNone == [isNone |-> TRUE]

NoCall ==
    [op |-> "none", project |-> "", sim |-> FALSE, export |-> FALSE, nn_config |-> PyNone]

NoChild == [spawned |-> 0, state |-> "none", returncode |-> 0]

Port(name) ==
    [name |-> name, integer_bits |-> 4, fractional_bits |-> 4, batch_size |-> 2, fifo_depth |-> 3]

NnConfig(inputs, outputs) == [isNone |-> FALSE, inputs |-> inputs, outputs |-> outputs]

NnConfigs ==
    {PyNone,
     NnConfig(<<Port("x")>>, <<Port("y")>>),
     NnConfig(<<Port("x")>>, <<>>)}

\* Python truth value of nn_config: None is false, a dict with keys is true.
Truthy(cfg) == ~cfg.isNone

Message(text, project) == [text |-> text, project |-> project]

Raise(exc, text, project) == Outcome("raise", exc, Message(text, project))

\* No testbench is running.
NoTestbench == [phase |-> "off"]

InitCommon ==
    /\ pc = "idle"
    /\ ret = NoOutcome
    /\ call = NoCall
    /\ steps = <<>>
    /\ child = NoChild
    /\ parsed = 0
    /\ fs = {}
    /\ sim_data = PyNone
    /\ stitched_report = EmptyDict
    /\ testbench = <<>>
    /\ tb = NoTestbench
    /\ log = <<>>
    /\ stdout = <<>>
    /\ fout = <<>>

(***************************************************************************)
(* Specification of the aggregator: every input mapping, one call.         *)
(***************************************************************************)
InitAggregate ==
    /\ InitCommon
    /\ \/ build_results = NoneMapping /\ heap = EmptyDict
       \/ \E n \in 0..MaxSubgraphs : \E ch \in [1..n -> EntryChoices] :
            build_results = MkMapping(ch) /\ heap = MkHeap(ch)

\* One call of _aggregate_build_results(build_results).
AggregateCall ==
    /\ pc = "idle"
    /\ \E up \in BOOLEAN :
        LET out == aggregate_build_results(build_results, heap, up)
        IN  IF out.kind = "return"
            THEN LET a == FinalReportAddr(build_results, heap)
                 IN  /\ heap' = Store(heap, a, out.value)
                     /\ ret' = Outcome("return", "", [k \in {"CSynthesisReport"} |-> a])
            ELSE /\ heap' = heap
                 /\ ret' = IF out.kind = "empty" THEN Outcome("return", "", EmptyDict) ELSE out
    /\ pc' = "done"
    /\ call' = [NoCall EXCEPT !.op = "aggregate"]
    /\ UNCHANGED <<build_results, steps, child, parsed, fs, sim_data, stitched_report>>
    /\ UNCHANGED benchVars

NextAggregate == AggregateCall

SpecAggregate == InitAggregate /\ [][NextAggregate]_vars

(***************************************************************************)
(* build.                                                                  *)
(***************************************************************************)
\* An exit code test that lets every exit code pass.
BuildFailed_Never(returncode) == FALSE

\* if process.returncode != 0
BuildFailed(returncode) == returncode # 0

\* parse_vivado_report(output_dir): what the report parser may hand back.
ParsedReports == {EmptyDict} \cup {[k \in {"CSynthesisReport"} |-> FullReport(v)] : v \in Variants}

\* build(model, ...) up to the check that vitis_hls is installed.
BuildStart ==
    /\ pc = "idle"
    /\ \E project \in Projects, linux \in BOOLEAN, found \in BOOLEAN :
        /\ call' = [NoCall EXCEPT !.op = "build", !.project = project]
        /\ IF linux /\ ~found
            THEN /\ pc' = "done"
                 /\ steps' = <<"check_installation">>
                 /\ ret' = Raise("Exception", "Vitis HLS installation not found", "")
            ELSE /\ pc' = "b_popen"
                 /\ steps' = IF linux THEN <<"check_installation">> ELSE <<>>
                 /\ ret' = NoOutcome
    /\ child' = NoChild
    /\ parsed' = 0
    /\ UNCHANGED <<build_results, heap, fs, sim_data, stitched_report>>
    /\ UNCHANGED benchVars

\* The log files are opened and subprocess.Popen starts vitis_hls.
BuildPopen ==
    /\ pc = "b_popen"
    /\ child' = [child EXCEPT !.spawned = @ + 1, !.state = "running"]
    /\ steps' = Append(steps, "popen")
    /\ pc' = "b_communicate"
    /\ UNCHANGED <<build_results, heap, ret, call, parsed, fs, sim_data, stitched_report>>
    /\ UNCHANGED benchVars

\* process.communicate() returns: the child has exited with some code.
BuildCommunicate ==
    /\ pc = "b_communicate"
    /\ \E rc \in ReturnCodes :
        child' = [child EXCEPT !.state = "exited", !.returncode = rc]
    /\ steps' = Append(steps, "communicate")
    /\ pc' = "b_check"
    /\ UNCHANGED <<build_results, heap, ret, call, parsed, fs, sim_data, stitched_report>>
    /\ UNCHANGED benchVars

\* The exit code is checked; on success the report is parsed and returned.
BuildFinish ==
    /\ pc = "b_check"
    /\ IF BuildFailed(child.returncode)
        THEN /\ ret' = Raise("Exception", "Build failed for", call.project)
             /\ steps' = Append(steps, "check_returncode")
             /\ parsed' = parsed
        ELSE /\ \E report \in ParsedReports : ret' = Outcome("return", "", report)
             /\ steps' = steps \o <<"check_returncode", "parse_vivado_report">>
             /\ parsed' = parsed + 1
    /\ pc' = "done"
    /\ UNCHANGED <<build_results, heap, call, child, fs, sim_data, stitched_report>>
    /\ UNCHANGED benchVars

(***************************************************************************)
(* read_testbench_log.  A log is the sequence of the rows under the header *)
(* output_name,index,value; a value is a float in 10^-FloatDigits units.   *)
(***************************************************************************)
Row(name, index, value) == [output_name |-> name, index |-> index, value |-> value]

\* The float pandas reads from the text of an integer.
ToFloat(n) == n * Pow10(FloatDigits)

\* int(x): the fraction is cut off, towards zero.
ToInt(x) == IF x >= 0 THEN x \div Pow10(FloatDigits) ELSE -((-x) \div Pow10(FloatDigits))

\* The output names a log can hold, in the sorted order groupby iterates them.
SortedNames == <<"y", "z">>

\* df[df['output_name'] == name]
RowsOf(rows, name) == SelectSeq(rows, LAMBDA r : r.output_name = name)

\* The keys of df[...].groupby('output_name'), in iteration order.
GroupNames(rows) ==
    SelectSeq(SortedNames, LAMBDA n : \E i \in DOMAIN rows : rows[i].output_name = n)

\* array = np.zeros(max(indices) + 1); array[indices] = values: of the rows
\* that share an index the last one stays.
DenseArray(group) ==
    LET top == SetMax({group[j].index : j \in DOMAIN group})
    IN  [i \in 0..top |->
            LET at == {j \in DOMAIN group : group[j].index = i}
            IN  IF at = {} THEN 0 ELSE group[SetMax(at)].value]

Printed(tag, name, value) == [tag |-> tag, name |-> name, value |-> value]

\* read_testbench_log(testbench_file): a missing file is reported and the
\* function returns; a file that is there is read (a log without a
\* latency_cycles row fails at .iloc[0]), its arrays and its latency are
\* printed and the function ends without a return statement.  Whenever it
\* returns, the caller gets None.
read_testbench_log(exists, rows) ==
    IF ~exists
    THEN [outcome |-> Outcome("return", "", PyNone),
          printed |-> <<Printed("error", "testbench_log.csv", 0)>>]
    ELSE IF Len(RowsOf(rows, "latency_cycles")) = 0
    THEN [outcome |-> Raise("IndexError", "", ""), printed |-> <<>>]
    ELSE LET latency == RowsOf(rows, "latency_cycles")[1].value
             names == GroupNames(rows)
         IN  [outcome |-> Outcome("return", "", PyNone),
              printed |-> [i \in 1..Len(names) |->
                              Printed("array", names[i], DenseArray(RowsOf(rows, names[i])))]
                          \o <<Printed("latency", "", ToInt(latency))>>]

\* The values a log row can carry: 1.0 and -0.5.
LogValues == {ToFloat(1), -(ToFloat(1) \div 2)}

LatencyRow(cycles) == Row("latency_cycles", 0, ToFloat(cycles))

RowChoices ==
    {Row(SortedNames[n], i, v) : n \in DOMAIN SortedNames, i \in 0..MaxIndex, v \in LogValues}
        \cup {LatencyRow(7)}

Logs == UNION {[1..n -> RowChoices] : n \in 0..MaxRows}

(***************************************************************************)
(* Specification of the log reader: every log, present or not, one call.   *)
(***************************************************************************)
InitLogReader ==
    /\ build_results = NoneMapping /\ heap = EmptyDict
    /\ pc = "idle" /\ ret = NoOutcome /\ call = NoCall /\ steps = <<>>
    /\ child = NoChild /\ parsed = 0
    /\ sim_data = PyNone /\ stitched_report = EmptyDict
    /\ testbench = <<>> /\ tb = NoTestbench /\ stdout = <<>> /\ fout = <<>>
    /\ \E exists \in BOOLEAN, rows \in Logs :
        /\ fs = IF exists THEN {"testbench_log.csv"} ELSE {}
        /\ log = IF exists THEN rows ELSE <<>>

\* One call of read_testbench_log(testbench_file).
ReadLogCall ==
    /\ pc = "idle"
    /\ LET r == read_testbench_log("testbench_log.csv" \in fs, log)
       IN  /\ ret' = r.outcome
           /\ stdout' = stdout \o r.printed
    /\ call' = [NoCall EXCEPT !.op = "read_testbench_log"]
    /\ pc' = "done"
    /\ UNCHANGED <<build_results, heap, steps, child, parsed, fs, sim_data, stitched_report>>
    /\ UNCHANGED <<testbench, tb, log, fout>>

NextLogReader == ReadLogCall

SpecLogReader == InitLogReader /\ [][NextLogReader]_vars

(***************************************************************************)
(* stitch_design.                                                          *)
(***************************************************************************)
\* An exit code test that lets every exit code pass.
StitchFailed_Never(returncode) == FALSE

\* if process.returncode != 0
StitchFailed(returncode) == returncode # 0

\* The exception generate_verilog_testbench raises for nn_config, "" if none:
\* nn_config['inputs'] of None is a TypeError, nn_config['outputs'][-1] of an
\* empty list an IndexError.
TestbenchError(cfg) ==
    IF cfg.isNone THEN "TypeError"
    ELSE IF Len(cfg.outputs) = 0 THEN "IndexError"
    ELSE ""


\* The logs a simulation of the stitched design may leave: a complete one,
\* and one of a simulation that ended before the latency was written.
SimulationLogs ==
    {<<Row("y", 0, ToFloat(1)), Row("y", 1, -(ToFloat(1) \div 2)), LatencyRow(7)>>,
     <<Row("y", 0, ToFloat(1))>>}

\* stitch_design(output_dir, project_name, ...): both directories are made.
StitchStart ==
    /\ pc = "idle"
    /\ \E project \in Projects, sim \in BOOLEAN, export \in BOOLEAN, cfg \in NnConfigs :
        call' = [op |-> "stitch", project |-> project, sim |-> sim, export |-> export,
                 nn_config |-> cfg]
    /\ steps' = <<"makedirs">>
    /\ fs' = {}
    /\ child' = NoChild
    /\ parsed' = 0
    /\ ret' = NoOutcome
    /\ sim_data' = PyNone
    /\ stitched_report' = EmptyDict
    /\ pc' = "s_copy"
    /\ log' = <<>>
    /\ stdout' = <<>>
    /\ UNCHANGED <<build_results, heap, testbench, tb, fout>>

\* shutil.copy of ip_stitcher.tcl; a failure is printed and the call goes on.
StitchCopy ==
    /\ pc = "s_copy"
    /\ \E copied \in BOOLEAN :
        fs' = IF copied THEN fs \cup {"ip_stitcher.tcl"} ELSE fs
    /\ steps' = Append(steps, "copy")
    /\ pc' = "s_nn_config"
    /\ UNCHANGED <<build_results, heap, ret, call, child, parsed, sim_data, stitched_report>>
    /\ UNCHANGED benchVars

\* if nn_config: json.dump(nn_config, file)
StitchWriteConfig ==
    /\ pc = "s_nn_config"
    /\ IF Truthy(call.nn_config)
        THEN /\ fs' = fs \cup {"nn_config.json"}
             /\ steps' = Append(steps, "write_nn_config")
        ELSE UNCHANGED <<fs, steps>>
    /\ pc' = "s_testbench"
    /\ UNCHANGED <<build_results, heap, ret, call, child, parsed, sim_data, stitched_report>>
    /\ UNCHANGED benchVars

\* if sim_stitched_design: generate_verilog_testbench(nn_config, testbench_path)
StitchTestbench ==
    /\ pc = "s_testbench"
    /\ IF call.sim
        THEN /\ steps' = Append(steps, "generate_testbench")
             /\ fs' = IF call.nn_config.isNone THEN fs ELSE fs \cup {"testbench.v"}
             /\ IF TestbenchError(call.nn_config) # ""
                 THEN /\ ret' = Raise(TestbenchError(call.nn_config), "", "")
                      /\ pc' = "done"
                 ELSE /\ ret' = ret
                      /\ pc' = "s_popen"
        ELSE /\ UNCHANGED <<steps, fs, ret>>
             /\ pc' = "s_popen"
    /\ UNCHANGED <<build_results, heap, call, child, parsed, sim_data, stitched_report>>
    /\ UNCHANGED benchVars

\* The log files are opened and subprocess.Popen starts vivado.
StitchPopen ==
    /\ pc = "s_popen"
    /\ child' = [child EXCEPT !.spawned = @ + 1, !.state = "running"]
    /\ fs' = fs \cup {"stitcher_stdout.log", "stitcher_stderr.log"}
    /\ steps' = Append(steps, "popen")
    /\ pc' = "s_communicate"
    /\ UNCHANGED <<build_results, heap, ret, call, parsed, sim_data, stitched_report>>
    /\ UNCHANGED benchVars

\* process.communicate() returns: the child has exited with some code; a
\* simulation it ran may have left its log.
StitchCommunicate ==
    /\ pc = "s_communicate"
    /\ \E rc \in ReturnCodes, logged \in BOOLEAN, rows \in SimulationLogs :
        /\ child' = [child EXCEPT !.state = "exited", !.returncode = rc]
        /\ fs' = IF logged /\ call.sim THEN fs \cup {"testbench_log.csv"} ELSE fs
        /\ log' = IF logged /\ call.sim THEN rows ELSE log
    /\ steps' = Append(steps, "communicate")
    /\ pc' = "s_check"
    /\ UNCHANGED <<build_results, heap, ret, call, parsed, sim_data, stitched_report>>
    /\ UNCHANGED <<testbench, tb, stdout, fout>>

\* The exit code is checked.
StitchCheck ==
    /\ pc = "s_check"
    /\ steps' = Append(steps, "check_returncode")
    /\ IF StitchFailed(child.returncode)
        THEN /\ ret' = Raise("Exception", "Stitching failed for", call.project)
             /\ pc' = "done"
        ELSE /\ ret' = ret
             /\ pc' = "s_aggregate"
    /\ UNCHANGED <<build_results, heap, call, child, parsed, fs, sim_data, stitched_report>>
    /\ UNCHANGED benchVars

\* stitched_report = self._aggregate_build_results(build_results)
StitchAggregate ==
    /\ pc = "s_aggregate"
    /\ steps' = Append(steps, "aggregate")
    /\ \E up \in BOOLEAN :
        LET out == aggregate_build_results(build_results, heap, up)
        IN  CASE out.kind = "return" ->
                    LET a == FinalReportAddr(build_results, heap)
                    IN  /\ heap' = Store(heap, a, out.value)
                        /\ stitched_report' = [k \in {"CSynthesisReport"} |-> a]
                        /\ ret' = ret
                        /\ pc' = IF call.sim THEN "s_read" ELSE "s_return"
              [] out.kind = "empty" ->
                    /\ heap' = heap
                    /\ stitched_report' = EmptyDict
                    /\ ret' = ret
                    /\ pc' = IF call.sim THEN "s_read" ELSE "s_return"
              [] OTHER ->
                    /\ heap' = heap
                    /\ stitched_report' = stitched_report
                    /\ ret' = out
                    /\ pc' = "done"
    /\ UNCHANGED <<build_results, call, child, parsed, fs, sim_data>>
    /\ UNCHANGED benchVars

\* sim_data = read_testbench_log(testbench_log_path)
StitchReadLog ==
    /\ pc = "s_read"
    /\ steps' = Append(steps, "read_testbench_log")
    /\ LET r == read_testbench_log("testbench_log.csv" \in fs, log)
       IN  /\ stdout' = stdout \o r.printed
           /\ IF r.outcome.kind = "raise"
               THEN /\ ret' = r.outcome
                    /\ pc' = "done"
                    /\ sim_data' = sim_data
               ELSE /\ ret' = ret
                    /\ pc' = "s_fold"
                    /\ sim_data' = r.outcome.value
    /\ UNCHANGED <<build_results, heap, call, child, parsed, fs, stitched_report>>
    /\ UNCHANGED <<testbench, tb, log, fout>>

\* The simulation data is folded into stitched_report: sim_data['outputs'] of
\* None is a TypeError; stitched_report['CSynthesisReport'] of {} a KeyError.
StitchFold ==
    /\ pc = "s_fold"
    /\ IF sim_data.isNone
        THEN /\ ret' = Raise("TypeError", "", "")
             /\ pc' = "done"
             /\ UNCHANGED <<heap, stitched_report, steps>>
        ELSE IF "CSynthesisReport" \notin DOMAIN stitched_report
        THEN /\ ret' = Raise("KeyError", "", "")
             /\ pc' = "done"
             /\ stitched_report' = Put(stitched_report, "CSimResults", sim_data.outputs)
             /\ UNCHANGED <<heap, steps>>
        ELSE /\ stitched_report' = Put(stitched_report, "CSimResults", sim_data.outputs)
             /\ heap' = [heap EXCEPT ![stitched_report["CSynthesisReport"]] =
                            Put(@, "Stiched_Design_Latency", Str(sim_data.latency_cycles))]
             /\ steps' = Append(steps, "fold")
             /\ ret' = ret
             /\ pc' = "s_return"
    /\ UNCHANGED <<build_results, call, child, parsed, fs, sim_data>>
    /\ UNCHANGED benchVars

\* return stitched_report
StitchReturn ==
    /\ pc = "s_return"
    /\ ret' = Outcome("return", "", stitched_report)
    /\ pc' = "done"
    /\ UNCHANGED <<build_results, heap, call, steps, child, parsed, fs, sim_data, stitched_report>>
    /\ UNCHANGED benchVars

(***************************************************************************)
(* Specification of the orchestrator: any sequence of aggregate, build and *)
(* stitch calls over one report mapping.                                   *)
(***************************************************************************)
OrchestratorChoices ==
    {[v |-> 1, hole |-> "none"], [v |-> 2, hole |-> "none"],
     [v |-> 1, hole |-> "all"], [v |-> 1, hole |-> "nokey"]}

InitOrchestrator ==
    /\ InitCommon
    /\ \/ build_results = NoneMapping /\ heap = EmptyDict
       \/ \E n \in 0..MaxSubgraphs : \E ch \in [1..n -> OrchestratorChoices] :
            build_results = MkMapping(ch) /\ heap = MkHeap(ch)

\* The caller has the outcome; what the call created is dropped, the caller's
\* report mapping and its reports stay.
CallerContinues ==
    /\ pc = "done"
    /\ pc' = "idle"
    /\ heap' = Restrict(heap, SourceAddrs(build_results) \cap DOMAIN heap)
    /\ ret' = NoOutcome
    /\ call' = NoCall
    /\ steps' = <<>>
    /\ child' = NoChild
    /\ parsed' = 0
    /\ fs' = {}
    /\ sim_data' = PyNone
    /\ stitched_report' = EmptyDict
    /\ log' = <<>>
    /\ stdout' = <<>>
    /\ UNCHANGED <<build_results, testbench, tb, fout>>

NextOrchestrator ==
    \/ AggregateCall
    \/ BuildStart \/ BuildPopen \/ BuildCommunicate \/ BuildFinish
    \/ StitchStart \/ StitchCopy \/ StitchWriteConfig \/ StitchTestbench
    \/ StitchPopen \/ StitchCommunicate \/ StitchCheck \/ StitchAggregate
    \/ StitchReadLog \/ StitchFold \/ StitchReturn
    \/ CallerContinues

SpecOrchestrator == InitOrchestrator /\ [][NextOrchestrator]_vars

(***************************************************************************)
(* generate_verilog_testbench.  The text it writes is a sequence of        *)
(* statements St(op, port, a, b, c); a comment line that opens a stimulus  *)
(* pattern is kept, since it is all that tells the patterns apart.         *)
(***************************************************************************)
PortWith(name, i, f, b, d) ==
    [name |-> name, integer_bits |-> i, fractional_bits |-> f, batch_size |-> b, fifo_depth |-> d]

St(op, port, a, b, c) == [op |-> op, port |-> port, a |-> a, b |-> b, c |-> c]

RECURSIVE Pow2(_)
Pow2(n) == IF n = 0 THEN 1 ELSE 2 * Pow2(n - 1)

\* total_bits = layer['integer_bits'] + layer['fractional_bits']
TotalBits(layer) == layer.integer_bits + layer.fractional_bits

\* The texts written in the passes of a loop, one after the other.
Flatten(texts) ==
    LET cat[n \in 0..Len(texts)] == IF n = 0 THEN <<>> ELSE cat[n - 1] \o texts[n]
    IN  cat[Len(texts)]

\* nn_config['outputs'][:-1]
AllButLast(layers) == SubSeq(layers, 1, Len(layers) - 1)

\* Lines 74-95: the module head and the AXI4-Stream signals of the ports.
Declarations(cfg) ==
    <<St("module", "", 0, 0, 0)>>
    \o Flatten([n \in DOMAIN cfg.inputs |->
            LET l == cfg.inputs[n] IN <<St("reg_tdata", l.name, TotalBits(l) * l.batch_size - 1, 0, 0),
              St("reg_tvalid", l.name, 0, 0, 0), St("wire_tready", l.name, 0, 0, 0)>>])
    \o Flatten([n \in DOMAIN cfg.outputs |->
            LET l == cfg.outputs[n] IN <<St("wire_tdata", l.name, TotalBits(l) * l.batch_size - 1, 0, 0),
              St("wire_tvalid", l.name, 0, 0, 0), St("reg_tready", l.name, 0, 0, 0)>>])

\* Lines 98-115: the instance of the design and the connections of every
\* input and of every output but the last (a = 1: with a trailing comma).
Connections(cfg) ==
    <<St("dut", "", 0, 0, 0)>>
    \o Flatten([n \in DOMAIN cfg.inputs |->
            LET l == cfg.inputs[n] IN <<St("connect", l.name, 1, 0, 0)>>])
    \o Flatten([n \in DOMAIN AllButLast(cfg.outputs) |->
            LET l == AllButLast(cfg.outputs)[n] IN <<St("connect", l.name, 1, 0, 0)>>])

\* Lines 117-122: the last output, without the trailing comma.
LastConnection(cfg) ==
    <<St("connect", cfg.outputs[Len(cfg.outputs)].name, 0, 0, 0), St("dut_end", "", 0, 0, 0)>>

\* Lines 125-162: clock, reset (released after a posedges), the initial
\* values of the control signals, and the cycle counter.
Infrastructure(cfg) ==
    <<St("clock", "", 0, 0, 0), St("reset", "", 5, 0, 0), St("set_ap_start", "", 0, 0, 0)>>
    \o Flatten([n \in DOMAIN cfg.inputs |->
            LET l == cfg.inputs[n] IN <<St("init_tvalid", l.name, 0, 0, 0)>>])
    \o Flatten([n \in DOMAIN cfg.outputs |->
            LET l == cfg.outputs[n] IN <<St("init_tready", l.name, 1, 0, 0)>>])
    \o <<St("cycle_counter", "", 0, 0, 0)>>

\* for k in range(batch_size): name_tdata[upper:lower] = 0 (shift < 0), or
\* = 1 << shift.  a is the slot k, b its width, c the shift.
SlotAssignments(l, shift) ==
    [k \in 1..l.batch_size |-> St("assign", l.name, k - 1, TotalBits(l), shift)]

\* A pattern whose beats do not wait for tready.
PatternBlock_NoReadyWait(l, pattern, shift) ==
    <<St("pattern", l.name, pattern, 0, 0), St("set_tvalid", l.name, 1, 0, 0),
      St("for", l.name, l.fifo_depth, l.batch_size + 1, 0)>>
    \o SlotAssignments(l, shift)
    \o <<St("posedge", l.name, 0, 0, 0),
         St("endfor", l.name, l.fifo_depth, l.batch_size + 1, 0),
         St("set_tvalid", l.name, 0, 0, 0)>>

\* One data pattern for one input (lines 182-193, 197-208, 213-224): the
\* comment, tvalid = 1, the loop of fifo_depth beats, tvalid = 0.  A beat
\* assigns every batch slot, waits for tready and for the next clock edge.
PatternBlock(l, pattern, shift) ==
    <<St("pattern", l.name, pattern, 0, 0), St("set_tvalid", l.name, 1, 0, 0),
      St("for", l.name, l.fifo_depth, l.batch_size + 2, 0)>>
    \o SlotAssignments(l, shift)
    \o <<St("while_tready", l.name, 0, 0, 0), St("posedge", l.name, 0, 0, 0),
         St("endfor", l.name, l.fifo_depth, l.batch_size + 2, 0),
         St("set_tvalid", l.name, 0, 0, 0)>>

\* A transmission process that samples the start cycle ahead of the second
\* pattern.
Stimulus_StartBeforeSecondPattern(cfg) ==
    <<St("initial", "", 0, 0, 0), St("wait_reset", "", 0, 0, 0),
      St("repeat_posedge", "", 2, 0, 0), St("fopen", "", 0, 0, 0),
      St("fwrite_header", "", 0, 0, 0), St("set_ap_start", "", 1, 0, 0)>>
    \o Flatten([n \in DOMAIN cfg.inputs |->
            LET l == cfg.inputs[n] IN PatternBlock(l, 1, -1)])
    \o <<St("start_cycle", "", 0, 0, 0)>>
    \o Flatten([n \in DOMAIN cfg.inputs |->
            LET l == cfg.inputs[n] IN PatternBlock(l, 2, l.fractional_bits)])
    \o Flatten([n \in DOMAIN cfg.inputs |->
            LET l == cfg.inputs[n] IN PatternBlock(l, 3, -1)])
    \o <<St("wait_done", "", 0, 0, 0), St("end_cycle", "", 0, 0, 0),
         St("display_latency", "", 0, 0, 0), St("fwrite_latency", "", 0, 0, 0),
         St("repeat_posedge", "", 2, 0, 0), St("fclose", "", 0, 0, 0),
         St("finish", "", 0, 0, 0)>>

\* Lines 165-235: the data transmission process.
Stimulus(cfg) ==
    <<St("initial", "", 0, 0, 0), St("wait_reset", "", 0, 0, 0),
      St("repeat_posedge", "", 2, 0, 0), St("fopen", "", 0, 0, 0),
      St("fwrite_header", "", 0, 0, 0), St("set_ap_start", "", 1, 0, 0)>>
    \o Flatten([n \in DOMAIN cfg.inputs |->
            LET l == cfg.inputs[n] IN PatternBlock(l, 1, -1)])
    \o Flatten([n \in DOMAIN cfg.inputs |->
            LET l == cfg.inputs[n] IN PatternBlock(l, 2, l.fractional_bits)])
    \o <<St("start_cycle", "", 0, 0, 0)>>
    \o Flatten([n \in DOMAIN cfg.inputs |->
            LET l == cfg.inputs[n] IN PatternBlock(l, 3, -1)])
    \o <<St("wait_done", "", 0, 0, 0), St("end_cycle", "", 0, 0, 0),
         St("display_latency", "", 0, 0, 0), St("fwrite_latency", "", 0, 0, 0),
         St("repeat_posedge", "", 2, 0, 0), St("fclose", "", 0, 0, 0),
         St("finish", "", 0, 0, 0)>>

\* Lines 238-260: one capture block per output; a is the width of a slot,
\* b the fractional bits, c the batch size.
Captures(cfg) ==
    Flatten([n \in DOMAIN cfg.outputs |->
            LET l == cfg.outputs[n] IN <<St("capture", l.name, TotalBits(l), l.fractional_bits, l.batch_size)>>])

\* generate_verilog_testbench(nn_config, testbench_output_path): the outcome
\* of the call and the text in the file when it ends.  The file is opened
\* and written from line 72 on; nn_config['outputs'][-1] of an empty list
\* raises IndexError at line 117, with the text written so far in the file.
generate_verilog_testbench(cfg) ==
    IF cfg.isNone
    THEN [outcome |-> Raise("TypeError", "", ""), text |-> <<>>]
    ELSE IF Len(cfg.outputs) = 0
    THEN [outcome |-> Raise("IndexError", "", ""),
          text |-> Declarations(cfg) \o Connections(cfg)]
    ELSE [outcome |-> Outcome("return", "", PyNone),
          text |-> Declarations(cfg) \o Connections(cfg) \o LastConnection(cfg)
                   \o Infrastructure(cfg) \o Stimulus(cfg) \o Captures(cfg)
                   \o <<St("endmodule", "", 0, 0, 0)>>]

(***************************************************************************)
(* The run of the generated testbench.  A process runs from the event that *)
(* wakes it to its next wait; the order in which the processes woken by    *)
(* one event run is not fixed.  At a clock edge the transmission process   *)
(* and the capture blocks wake; the nonblocking updates (the cycle counter, *)
(* the design's outputs) follow once these have run, in either order.      *)
(***************************************************************************)
\* The header line of the log.
HeaderRow == Row("output_name", 0, 0)

\* The slot's bits read as an unsigned value.
Signed_Unsigned(raw, width) == raw

\* reg signed [total_bits-1:0] fixed_val = the slot's bits.
Signed(raw, width) == IF raw >= Pow2(width - 1) THEN raw - Pow2(width) ELSE raw

\* name_tdata[upper:lower] = 1 << shift (or = 0): the slot keeps the low
\* width bits of the value.
SlotValue(width, shift) == IF shift < 0 THEN 0 ELSE Pow2(shift) % Pow2(width)

\* real_val = fixed_val / (1.0 * (1 << f_bits)), as the float the log's %f
\* text reads back as.
RealValue(raw, width, f_bits) == (Signed(raw, width) * Pow10(FloatDigits)) \div Pow2(f_bits)

\* The statements of the text with the given op.
Statements(text, op) == SelectSeq(text, LAMBDA st : st.op = op)

\* The place of the first statement with the given op.
IndexOf(text, op) == CHOOSE i \in DOMAIN text : text[i].op = op /\ \A j \in 1..(i - 1) : text[j].op # op

InputNames(text) == {st.port : st \in {text[i] : i \in {j \in DOMAIN text : text[j].op = "reg_tdata"}}}

OutputNames(text) == {st.port : st \in {text[i] : i \in {j \in DOMAIN text : text[j].op = "capture"}}}

CaptureOf(text, name) == CHOOSE st \in {text[i] : i \in DOMAIN text} : st.op = "capture" /\ st.port = name

\* The state of the simulation at time 0, after the initial blocks have run
\* to their first wait: reset asserted, the transmission process waiting for
\* its release.
StartedTestbench(text, can_open) ==
    [phase |-> "run", at |-> IndexOf(text, "wait_reset"), waiting |-> "level",
     j |-> 0, rep |-> 0, pattern |-> 0, edges |-> 0,
     ap_rst_n |-> 0, ap_start |-> 0, ap_done |-> 0,
     cycle_count |-> 0, next_count |-> 0, start_cycle |-> 0, end_cycle |-> 0,
     csv_file |-> "none", can_open |-> can_open,
     tvalid |-> [n \in InputNames(text) |-> 0],
     tdata |-> [n \in InputNames(text) |-> <<>>],
     tready |-> [n \in InputNames(text) |-> 1],
     out |-> [n \in OutputNames(text) |-> [tvalid |-> 0, raw |-> 0]],
     captures |-> {}, nba |-> {}, stalls |-> 0, transfers |-> 0, events |-> <<>>]

Event(ev, port, pattern, data) == [ev |-> ev, port |-> port, pattern |-> pattern, data |-> data]

State(t, rows) == [tb |-> t, log |-> rows]

\* One statement of the transmission process.
Execute(t, rows, st) ==
    CASE st.op = "wait_reset" ->
            IF t.ap_rst_n = 1 THEN State([t EXCEPT !.at = @ + 1], rows)
            ELSE State([t EXCEPT !.waiting = "level"], rows)
      [] st.op = "repeat_posedge" ->
            IF t.rep < st.a THEN State([t EXCEPT !.rep = @ + 1, !.waiting = "edge"], rows)
            ELSE State([t EXCEPT !.rep = 0, !.at = @ + 1], rows)
      [] st.op = "fopen" ->
            IF t.can_open THEN State([t EXCEPT !.csv_file = "open", !.at = @ + 1], <<>>)
            ELSE State([t EXCEPT !.csv_file = "failed", !.phase = "finished"], rows)
      [] st.op = "fwrite_header" ->
            State([t EXCEPT !.at = @ + 1],
                  IF t.csv_file = "open" THEN Append(rows, HeaderRow) ELSE rows)
      [] st.op = "set_ap_start" -> State([t EXCEPT !.ap_start = st.a, !.at = @ + 1], rows)
      [] st.op = "pattern" -> State([t EXCEPT !.pattern = st.a, !.at = @ + 1], rows)
      [] st.op = "set_tvalid" -> State([t EXCEPT !.tvalid[st.port] = st.a, !.at = @ + 1], rows)
      [] st.op = "for" ->
            IF 0 < st.a THEN State([t EXCEPT !.j = 0, !.at = @ + 1], rows)
            ELSE State([t EXCEPT !.j = 0, !.at = @ + st.b + 2], rows)
      [] st.op = "assign" ->
            State([t EXCEPT !.tdata[st.port] =
                                [k \in (DOMAIN @) \cup {st.a + 1} |->
                                    IF k = st.a + 1 THEN SlotValue(st.b, st.c) ELSE @[k]],
                            !.at = @ + 1], rows)
      [] st.op = "while_tready" ->
            IF t.tready[st.port] = 0 THEN State([t EXCEPT !.waiting = "edge"], rows)
            ELSE State([t EXCEPT !.at = @ + 1,
                                 !.events = Append(@, Event("ready", st.port, t.pattern, 0))], rows)
      [] st.op = "posedge" ->
            State([t EXCEPT !.waiting = "edge", !.at = @ + 1,
                            !.events = Append(@, Event("beat", st.port, t.pattern,
                                                       t.tdata[st.port]))], rows)
      [] st.op = "endfor" ->
            IF t.j + 1 < st.a THEN State([t EXCEPT !.j = @ + 1, !.at = @ - st.b], rows)
            ELSE State([t EXCEPT !.j = @ + 1, !.at = @ + 1], rows)
      [] st.op = "start_cycle" ->
            State([t EXCEPT !.start_cycle = t.cycle_count, !.at = @ + 1,
                            !.events = Append(@, Event("start_cycle", "", 0, t.cycle_count))],
                  rows)
      [] st.op = "wait_done" ->
            IF t.ap_done = 1
            THEN State([t EXCEPT !.at = @ + 1,
                                 !.events = Append(@, Event("done", "", 0, t.ap_done))], rows)
            ELSE State([t EXCEPT !.waiting = "level"], rows)
      [] st.op = "end_cycle" ->
            State([t EXCEPT !.end_cycle = t.cycle_count, !.at = @ + 1,
                            !.events = Append(@, Event("end_cycle", "", 0, t.cycle_count))],
                  rows)
      [] st.op = "fwrite_latency" ->
            State([t EXCEPT !.at = @ + 1,
                            !.events = Append(@, Event("latency", "", 0,
                                                       t.end_cycle - t.start_cycle))],
                  IF t.csv_file = "open"
                  THEN Append(rows, LatencyRow(t.end_cycle - t.start_cycle)) ELSE rows)
      [] st.op = "fclose" -> State([t EXCEPT !.csv_file = "closed", !.at = @ + 1], rows)
      [] st.op = "finish" -> State([t EXCEPT !.phase = "finished"], rows)
      [] OTHER -> State([t EXCEPT !.at = @ + 1], rows)

\* The transmission process runs until it waits or the simulation ends.
RECURSIVE RunToWait(_, _, _)
RunToWait(t, rows, text) ==
    IF t.waiting # "no" \/ t.phase # "run" THEN State(t, rows)
    ELSE LET s == Execute(t, rows, text[t.at])
         IN  RunToWait(s.tb, s.log, text)

(***************************************************************************)
(* Specification of the testbench: every port configuration, one call of   *)
(* the generator, and the run of the text it wrote.                        *)
(***************************************************************************)
InputChoices ==
    {<<>>} \cup {<<PortWith("x", 4, 4, 2, d)>> : d \in 1..MaxDepth}
           \cup {<<PortWith("x", 4, 4, 2, MaxDepth), PortWith("w", 0, 2, 1, 1)>>}

OutputChoices == {<<>>, <<PortWith("y", 4, 4, 2, 1)>>}

TestbenchConfigs ==
    {NnConfig(ins, outs) : ins \in InputChoices, outs \in OutputChoices}
        \cup {NnConfig(<<PortWith("x", 4, 4, 2, 1)>>, <<PortWith("z", 1, 2, 1, 1)>>)}

InitTestbench ==
    /\ build_results = NoneMapping /\ heap = EmptyDict
    /\ pc = "idle" /\ ret = NoOutcome /\ steps = <<>>
    /\ child = NoChild /\ parsed = 0 /\ fs = {}
    /\ sim_data = PyNone /\ stitched_report = EmptyDict
    /\ testbench = <<>> /\ tb = NoTestbench /\ log = <<>> /\ stdout = <<>> /\ fout = <<>>
    /\ \E cfg \in TestbenchConfigs :
        call = [NoCall EXCEPT !.op = "generate_verilog_testbench", !.nn_config = cfg]

\* One call of generate_verilog_testbench(nn_config, testbench_output_path).
GenerateTestbench ==
    /\ pc = "idle"
    /\ LET g == generate_verilog_testbench(call.nn_config)
       IN  /\ ret' = g.outcome
           /\ testbench' = g.text
    /\ fs' = fs \cup {"testbench.v"}
    /\ pc' = "done"
    /\ UNCHANGED <<build_results, heap, call, steps, child, parsed, sim_data, stitched_report>>
    /\ UNCHANGED <<tb, log, stdout, fout>>

\* The simulator starts the generated testbench; whether it can open the
\* log for writing is the environment's.
TestbenchStart ==
    /\ pc = "done" /\ ret.kind = "return" /\ tb = NoTestbench
    /\ \E can_open \in BOOLEAN : tb' = StartedTestbench(testbench, can_open)
    /\ UNCHANGED <<build_results, heap, pc, ret, call, steps, child, parsed, fs, sim_data>>
    /\ UNCHANGED <<stitched_report, testbench, log, stdout, fout>>

\* A rising clock edge: the reset block releases the reset at its fifth
\* edge, the cycle counter's block reads ap_rst_n (at the edge of the
\* release, before or after it) and schedules its update, the transmission
\* process wakes if it waits for the edge, the capture blocks wake.
Posedge ==
    /\ tb.phase = "run" /\ tb.waiting # "no" /\ tb.captures = {} /\ tb.nba = {}
    /\ LET release == tb.edges + 1 = Statements(testbench, "reset")[1].a
           rst == IF release THEN 1 ELSE tb.ap_rst_n
           at_reset == testbench[tb.at].op = "wait_reset"
       IN  \E seen \in {tb.ap_rst_n, rst} :
            tb' = [tb EXCEPT !.edges = @ + 1,
                             !.ap_rst_n = rst,
                             !.next_count = IF seen = 0 THEN 0 ELSE tb.cycle_count + 1,
                             !.waiting = IF @ = "edge" \/ (at_reset /\ rst = 1) THEN "no" ELSE @,
                             !.captures = OutputNames(testbench),
                             !.nba = {"dut", "count"}]
    /\ UNCHANGED <<build_results, heap, pc, ret, call, steps, child, parsed, fs, sim_data>>
    /\ UNCHANGED <<stitched_report, testbench, log, stdout, fout>>

\* The transmission process runs to its next wait.
Transmit ==
    /\ tb.phase = "run" /\ tb.waiting = "no"
    /\ LET s == RunToWait(tb, log, testbench)
       IN  tb' = s.tb /\ log' = s.log
    /\ UNCHANGED <<build_results, heap, pc, ret, call, steps, child, parsed, fs, sim_data>>
    /\ UNCHANGED <<stitched_report, testbench, stdout, fout>>

\* The capture block of one output runs: if (tvalid && tready), one row per
\* batch slot goes to the log, if the log is open.
Capture ==
    /\ tb.phase = "run"
    /\ \E name \in tb.captures :
        LET c == CaptureOf(testbench, name)
            tready == Statements(testbench, "init_tready")[1].a
            rows == [idx \in 1..c.c |-> Row(name, idx - 1, RealValue(tb.out[name].raw, c.a, c.b))]
        IN  /\ tb' = [tb EXCEPT !.captures = @ \ {name}]
            /\ log' = IF tb.out[name].tvalid = 1 /\ tready = 1 /\ tb.csv_file = "open"
                      THEN log \o rows ELSE log
    /\ UNCHANGED <<build_results, heap, pc, ret, call, steps, child, parsed, fs, sim_data>>
    /\ UNCHANGED <<stitched_report, testbench, stdout, fout>>

\* The nonblocking updates take place once the processes the edge woke have
\* run; after the first of them the process it woke may run before the other.
UpdatesActive == tb.nba # {"dut", "count"} \/ (tb.captures = {} /\ tb.waiting # "no")

\* cycle_count <= cycle_count + 1 (or <= 0 under reset).
CountUpdate ==
    /\ tb.phase = "run" /\ "count" \in tb.nba /\ UpdatesActive
    /\ tb' = [tb EXCEPT !.cycle_count = tb.next_count, !.nba = @ \ {"count"}]
    /\ UNCHANGED <<build_results, heap, pc, ret, call, steps, child, parsed, fs, sim_data>>
    /\ UNCHANGED <<stitched_report, testbench, log, stdout, fout>>

\* The value the design puts on an output's slots: the pattern's 1 << f.
OutRaws(c) == {SlotValue(c.a, c.b)}

\* The design under test drives its outputs: idle under reset; after it it
\* may hold back an input that is offered to it (tready is read for no
\* other), assert ap_done once it is started and the last pattern is on its
\* way, and make a transfer on its outputs.  The cycles it keeps the
\* transmission process waiting, for tready or for ap_done, are bounded.
DutUpdate ==
    /\ tb.phase = "run" /\ "dut" \in tb.nba /\ UpdatesActive
    /\ \E low \in SUBSET InputNames(testbench), done \in {0, 1}, valid \in {0, 1} :
        LET awaited == tb.waiting = "level" /\ testbench[tb.at].op = "wait_done" IN
        /\ tb.ap_rst_n = 0 => (low = {} /\ done = 0 /\ valid = 0)
        /\ (low # {} \/ (awaited /\ done = 0)) => tb.stalls < MaxStalls
        /\ \A n \in low : tb.tvalid[n] = 1
        /\ done = 1 => (tb.ap_start = 1 /\ (tb.pattern = 3 \/ InputNames(testbench) = {}))
        /\ valid = 1 => (tb.transfers < MaxTransfers /\ OutputNames(testbench) # {})
        /\ \E out \in [OutputNames(testbench) ->
                        UNION {OutRaws(CaptureOf(testbench, n)) \cup {0} :
                                  n \in OutputNames(testbench)}] :
            /\ \A n \in OutputNames(testbench) :
                out[n] \in (IF valid = 1 THEN OutRaws(CaptureOf(testbench, n)) ELSE {0})
            /\ tb' = [tb EXCEPT
                        !.nba = @ \ {"dut"},
                        !.ap_done = done,
                        !.tready = [n \in DOMAIN @ |-> IF n \in low THEN 0 ELSE 1],
                        !.out = [n \in DOMAIN @ |-> [tvalid |-> valid, raw |-> out[n]]],
                        !.stalls = IF low # {} \/ (awaited /\ done = 0) THEN @ + 1 ELSE @,
                        !.transfers = IF valid = 1 THEN @ + 1 ELSE @,
                        !.waiting = IF @ = "level" /\ testbench[tb.at].op = "wait_done" /\ done = 1
                                    THEN "no" ELSE @]
    /\ UNCHANGED <<build_results, heap, pc, ret, call, steps, child, parsed, fs, sim_data>>
    /\ UNCHANGED <<stitched_report, testbench, log, stdout, fout>>

NextTestbench ==
    \/ GenerateTestbench \/ TestbenchStart
    \/ Posedge \/ Transmit \/ Capture \/ CountUpdate \/ DutUpdate

SpecTestbench == InitTestbench /\ [][NextTestbench]_vars

(***************************************************************************)
(* Specification of the fixed pattern's slot: every port descriptor, the   *)
(* statement that drives 1 << fractional_bits into a slot (line 204) and   *)
(* the capture block's decoding of such a slot (lines 253-254).  A         *)
(* fraction of up to FloatDigits bits is exact in the model's floats.      *)
(***************************************************************************)
PortDescriptors ==
    {PortWith("x", i, f, b, 1) : i \in 0..MaxIntBits, f \in 0..FloatDigits, b \in 1..2}
        \ {PortWith("x", 0, 0, b, 1) : b \in 1..2}

InitFixedPoint ==
    /\ build_results = NoneMapping /\ heap = EmptyDict
    /\ pc = "idle" /\ ret = NoOutcome /\ steps = <<>>
    /\ child = NoChild /\ parsed = 0 /\ fs = {}
    /\ sim_data = PyNone /\ stitched_report = EmptyDict
    /\ testbench = <<>> /\ tb = NoTestbench /\ log = <<>> /\ stdout = <<>> /\ fout = <<>>
    /\ \E l \in PortDescriptors :
        call = [NoCall EXCEPT !.op = "fixed_pattern", !.nn_config = NnConfig(<<l>>, <<l>>)]

\* name_tdata[upper:lower] = 1 << fractional_bits, for one batch slot.
DriveFixedSlot ==
    /\ pc = "idle"
    /\ LET l == call.nn_config.inputs[1]
       IN  \E k \in 0..(l.batch_size - 1) :
            tb' = [phase |-> "driven", slot |-> k,
                   raw |-> SlotValue(TotalBits(l), l.fractional_bits),
                   fixed_val |-> 0, real_val |-> 0]
    /\ pc' = "driven"
    /\ UNCHANGED <<build_results, heap, ret, call, steps, child, parsed, fs, sim_data>>
    /\ UNCHANGED <<stitched_report, testbench, log, stdout, fout>>

\* fixed_val = the slot; real_val = fixed_val / (1.0 * (1 << f_bits)).
CaptureSlot ==
    /\ pc = "driven"
    /\ LET l == call.nn_config.outputs[1]
       IN  tb' = [tb EXCEPT !.phase = "captured",
                            !.fixed_val = Signed(tb.raw, TotalBits(l)),
                            !.real_val = RealValue(tb.raw, TotalBits(l), l.fractional_bits)]
    /\ pc' = "done"
    /\ UNCHANGED <<build_results, heap, ret, call, steps, child, parsed, fs, sim_data>>
    /\ UNCHANGED <<stitched_report, testbench, log, stdout, fout>>

NextFixedPoint == DriveFixedSlot \/ CaptureSlot

SpecFixedPoint == InitFixedPoint /\ [][NextFixedPoint]_vars

(***************************************************************************)
(* _make_array_pragma (hls4ml/writer/vivado_writer.py).  A pragma is a     *)
(* tuple of items or a single item; an item is a string or an int.  A      *)
(* local variable of the function that no statement has assigned yet is    *)
(* Unbound.  The line returned is the sequence of its words: a word is a   *)
(* text of the template followed by the item formatted into its field.     *)
(***************************************************************************)
Tok(s) == [kind |-> "str", s |-> s, n |-> 0]

Num(n) == [kind |-> "int", s |-> "", n |-> n]

Unbound == [kind |-> "unbound", s |-> "", n |-> 0]

Word(text, item) == [text |-> text, item |-> item]

TuplePragma(items) == [isTuple |-> TRUE, items |-> items]

TokenPragma(item) == [isTuple |-> FALSE, items |-> <<item>>]

Variable(name, pragma) == [name |-> name, pragma |-> pragma]

Line(words) == [isNone |-> FALSE, words |-> words]

\* str.upper() of a mode or style.
Upper(item) ==
    CASE item = Tok("partition") -> Tok("PARTITION")
      [] item = Tok("reshape") -> Tok("RESHAPE")
      [] item = Tok("pipeline") -> Tok("PIPELINE")
      [] item = Tok("dataflow") -> Tok("DATAFLOW")
      [] OTHER -> item

ArrayModes == {Tok("partition"), Tok("reshape")}

\* The result of _make_array_pragma(variable): the line returned, None when
\* the function ends without a return statement, or the exception raised by
\* a subscript beyond the tuple or by the use of an unassigned local.
make_array_pragma(variable) ==
    LET config == variable.pragma
        items == config.items
        n == Len(items)
        mode == items[1]
        typ ==
            IF ~config.isTuple THEN Tok("complete")
            ELSE IF mode \in ArrayModes THEN items[2] ELSE Unbound
        factor ==
            IF ~config.isTuple THEN Num(0)
            ELSE IF mode \in ArrayModes /\ typ # Tok("complete") THEN items[3] ELSE Unbound
        depth ==
            IF config.isTuple /\ mode = Tok("stream") THEN items[2] ELSE Unbound
        beyond ==
            config.isTuple /\
                \/ n = 0
                \/ mode \in ArrayModes /\ (n < 2 \/ (items[2] # Tok("complete") /\ n < 3))
                \/ mode = Tok("stream") /\ n < 2
        head == <<Word("#pragma HLS ARRAY_", Upper(mode)), Word("variable=", Tok(variable.name))>>
    IN  IF beyond THEN Outcome("raise", "IndexError", PyNone)
        ELSE IF mode \in ArrayModes THEN
            IF factor = Unbound THEN Outcome("raise", "UnboundLocalError", PyNone)
            ELSE IF typ = Tok("complete")
                THEN Outcome("return", "", Line(head \o <<Word("", typ), Word("dim=", Num(0))>>))
                ELSE Outcome("return", "",
                             Line(head \o <<Word("", typ), Word("factor=", factor),
                                            Word("dim=", Num(0))>>))
        ELSE IF mode = Tok("stream") THEN
            IF depth = Unbound THEN Outcome("raise", "UnboundLocalError", PyNone)
            ELSE Outcome("return", "",
                         Line(<<Word("#pragma HLS ", Tok("STREAM")),
                                Word("variable=", Tok(variable.name)), Word("depth=", depth)>>))
        ELSE Outcome("return", "", PyNone)

(***************************************************************************)
(* Specification of the pragma renderer: every pragma, one call.           *)
(***************************************************************************)
VariableNames == {"x", "w2"}

PragmaModes == ArrayModes \cup {Tok("stream"), Tok("unroll")}

PragmaTypes == {Tok("complete"), Tok("cyclic"), Tok("block")}

PragmaNumbers == {Num(k) : k \in 1..MaxFactor}

Pragmas ==
    {TokenPragma(m) : m \in PragmaModes}
    \cup {TuplePragma(<<>>)}
    \cup {TuplePragma(<<m>>) : m \in PragmaModes}
    \cup {TuplePragma(<<m, t>>) : m \in PragmaModes, t \in PragmaTypes \cup PragmaNumbers}
    \cup {TuplePragma(<<m, t, k>>) :
            m \in PragmaModes, t \in PragmaTypes \cup PragmaNumbers, k \in PragmaNumbers}

PragmaCall(variable) == [op |-> "_make_array_pragma", variable |-> variable]

InitPragma ==
    /\ build_results = NoneMapping /\ heap = EmptyDict
    /\ pc = "idle" /\ ret = NoOutcome /\ steps = <<>>
    /\ child = NoChild /\ parsed = 0 /\ fs = {}
    /\ sim_data = PyNone /\ stitched_report = EmptyDict
    /\ testbench = <<>> /\ tb = NoTestbench /\ log = <<>> /\ stdout = <<>> /\ fout = <<>>
    /\ \E name \in VariableNames, pragma \in Pragmas : call = PragmaCall(Variable(name, pragma))

\* One call of _make_array_pragma(variable).
MakeArrayPragmaCall ==
    /\ pc = "idle"
    /\ call.op = "_make_array_pragma"
    /\ ret' = make_array_pragma(call.variable)
    /\ pc' = "done"
    /\ UNCHANGED <<build_results, heap, call, steps, child, parsed, fs, sim_data>>
    /\ UNCHANGED <<stitched_report, testbench, tb, log, stdout, fout>>

NextPragma == MakeArrayPragmaCall

SpecPragma == InitPragma /\ [][NextPragma]_vars

(***************************************************************************)
(* write_project_cpp (hls4ml/writer/vivado_writer.py).  The template is a  *)
(* sequence of lines; a line is known by the markers it contains.  The     *)
(* string one iteration of the loop builds (newline) is the sequence of    *)
(* the pieces appended to it, and the output file is the sequence of the   *)
(* strings written to it.                                                  *)
(***************************************************************************)
NoneItem == [kind |-> "none", s |-> "", n |-> 0]

\* variable.pragma is None.
NoPragma == TokenPragma(NoneItem)

\* Python truth value of a pragma: None and the empty tuple are false.
TruthyPragma(pragma) == pragma # NoPragma /\ pragma.items # <<>>

\* A variable of the model graph; definition says whether definition_cpp()
\* returns a text (TRUE) or None.
GraphVariable(name, type_name, pragma, definition) ==
    [name |-> name, type_name |-> type_name, pragma |-> pragma, definition |-> definition]

Weight(name, type_name, weight_class, nonzeros, data_length, storage) ==
    [name |-> name, type_name |-> type_name, weight_class |-> weight_class,
     nonzeros |-> nonzeros, data_length |-> data_length, storage |-> storage]

\* function_cpp of a layer: None, a single statement or a list of statements.
FunctionCpp(isList, stmts) == [isNone |-> FALSE, isList |-> isList, stmts |-> stmts]

Layer(name, variables, weights, function_cpp, trace) ==
    [name |-> name, variables |-> variables, weights |-> weights,
     function_cpp |-> function_cpp, trace |-> trace]

TemplateLine(markers) == [markers |-> markers]

\* 'marker' in line
Contains(line, marker) == marker \in line.markers

\* Pieces of newline.
Copy(line) == [kind |-> "line", line |-> line]

\* line.replace('myproject', name): the token is gone, the rest of the line,
\* other markers included, stays.
Replaced(line, name) ==
    [kind |-> "replaced", line |-> TemplateLine(line.markers \ {"myproject"}), project |-> name]

\* A literal of the source; nl says whether it ends with a line break.
Code(text, nl) == [kind |-> "code", text |-> text, nl |-> nl]

LoaderCall(loader, type_name, size, name) ==
    [kind |-> "loader", loader |-> loader, type_name |-> type_name, size |-> size,
     name |-> name, file |-> name]

\* The range of a sequence.
Range(s) == {s[k] : k \in DOMAIN s}

\* model.get_weight_variables(): the weights of all layers, in layer order.
WeightVariables(model) == Flatten([k \in DOMAIN model.layers |-> model.layers[k].weights])

\* str.lower() of a storage class.
Lower(storage) == IF storage = "BRAM" THEN "bram" ELSE storage

RECURSIVE SelectBrams(_)
SelectBrams(weights) ==
    IF weights = <<>> THEN <<>>
    ELSE (IF Lower(Head(weights).storage) = "bram" THEN <<Head(weights)>> ELSE <<>>)
         \o SelectBrams(Tail(weights))

\* A loader call that gives a compressed weight its data length.
LoadWeight_CompressedByDataLength(w) ==
    IF w.weight_class = "CompressedWeightVariable"
    THEN LoaderCall("nnet::load_compressed_weights_from_txt", w.type_name, w.data_length, w.name)
    ELSE IF w.weight_class = "ExponentWeightVariable"
    THEN LoaderCall("nnet::load_exponent_weights_from_txt", w.type_name, w.data_length, w.name)
    ELSE LoaderCall("nnet::load_weights_from_txt", w.type_name, w.data_length, w.name)

\* The loader call of one weight (lines 175-193).
LoadWeight(w) ==
    IF w.weight_class = "CompressedWeightVariable"
    THEN LoaderCall("nnet::load_compressed_weights_from_txt", w.type_name, w.nonzeros, w.name)
    ELSE IF w.weight_class = "ExponentWeightVariable"
    THEN LoaderCall("nnet::load_exponent_weights_from_txt", w.type_name, w.data_length, w.name)
    ELSE LoaderCall("nnet::load_weights_from_txt", w.type_name, w.data_length, w.name)

\* The expansion of the 'insert load weights' marker (lines 165-196).
LoadWeights(model, line) ==
    <<Copy(line)>> \o
    (IF model.writer_config.WriteWeightsTxt
     THEN <<Code("#ifndef __SYNTHESIS__", TRUE),
            Code("static bool loaded_weights = false;", TRUE),
            Code("if (!loaded_weights) {", TRUE)>>
          \o Flatten([k \in DOMAIN model.layers |->
                        [j \in DOMAIN model.layers[k].weights |->
                            LoadWeight(model.layers[k].weights[j])]])
          \o <<Code("loaded_weights = true;", FALSE),
               Code("}", TRUE),
               Code("#endif", FALSE)>>
     ELSE <<>>)

\* definition_cpp(as_reference) of a variable or weight.
Definition(var, as_reference) ==
    [kind |-> "definition", name |-> var.name, type_name |-> var.type_name,
     as_reference |-> as_reference]

\* A part of newline: the pieces appended, or the exception raised on the way.
Part(pieces) == [exc |-> "", pieces |-> pieces]

Failed(exc) == [exc |-> exc, pieces |-> <<>>]

\* The parts in the order the code builds them: the first exception ends the
\* iteration before anything of it is written.
Assemble(parts) ==
    IF \E k \in DOMAIN parts : parts[k].exc # ""
    THEN Failed(parts[CHOOSE k \in DOMAIN parts :
                        /\ parts[k].exc # ""
                        /\ \A j \in 1..(k - 1) : parts[j].exc = ""].exc)
    ELSE Part(Flatten([k \in DOMAIN parts |-> parts[k].pieces]))

\* indent + self._make_array_pragma(var) + tail: a str plus None is a TypeError.
PragmaPart(var, tail) ==
    LET r == make_array_pragma(var)
    IN  IF r.kind = "raise" THEN Failed(r.exc)
        ELSE IF r.value.isNone THEN Failed("TypeError")
        ELSE Part(<<[kind |-> "pragma", name |-> var.name, words |-> r.value.words]>> \o tail)

Names(variables) == [k \in DOMAIN variables |-> variables[k].name]

\* The expansion of the 'insert header' marker (lines 139-149).
Header(model) ==
    LET brams == SelectBrams(WeightVariables(model))
    IN  <<[kind |-> "header",
           inputs |-> [k \in DOMAIN model.inputs |-> Definition(model.inputs[k], TRUE)],
           outputs |-> [k \in DOMAIN model.outputs |-> Definition(model.outputs[k], TRUE)],
           brams |-> [k \in DOMAIN brams |-> Definition(brams[k], FALSE)]]>>

\* The expansions of the namespace markers (lines 151-163).
NamespaceStart(model) ==
    IF model.writer_config.Namespace # NoneItem
    THEN <<[kind |-> "namespace", name |-> model.writer_config.Namespace]>>
    ELSE <<>>

NamespaceEnd(model) ==
    IF model.writer_config.Namespace # NoneItem THEN <<Code("}", TRUE)>> ELSE <<>>

Interface(mode, ports) == [kind |-> "interface", mode |-> mode, ports |-> ports]

\* Lines 206-212: the pipeline pragma.
PipelinePragma(model) ==
    [kind |-> "pipeline", style |-> Upper(Tok(model.pipeline_style)),
     ii |-> IF model.pipeline_style = "pipeline" /\ model.pipeline_ii # NoneItem
            THEN model.pipeline_ii ELSE NoneItem]

\* An IO expansion that writes the pragmas of the outputs before those of
\* the inputs.
IO_OutputsFirst(model, line) ==
    LET brams == SelectBrams(WeightVariables(model))
        ports == <<Names(model.inputs), Names(model.outputs)>>
    IN  Assemble(
            <<Part(<<Copy(line)>>)>>
            \o (IF model.io_type = "io_parallel"
                THEN [k \in DOMAIN model.outputs |-> PragmaPart(model.outputs[k], <<>>)]
                     \o [k \in DOMAIN model.inputs |-> PragmaPart(model.inputs[k], <<>>)]
                     \o <<Part(<<Interface("ap_vld", ports), PipelinePragma(model)>>)>>
                ELSE <<>>)
            \o (IF model.io_type = "io_stream"
                THEN <<Part(<<Interface("axis", ports)>>
                            \o (IF brams # <<>> THEN <<Interface("bram", <<Names(brams)>>)>>
                                ELSE <<>>)
                            \o <<PipelinePragma(model)>>)>>
                ELSE <<>>))

\* The expansion of the 'insert IO' marker (lines 199-232).
IO(model, line) ==
    LET brams == SelectBrams(WeightVariables(model))
        ports == <<Names(model.inputs), Names(model.outputs)>>
    IN  Assemble(
            <<Part(<<Copy(line)>>)>>
            \o (IF model.io_type = "io_parallel"
                THEN [k \in DOMAIN model.inputs |-> PragmaPart(model.inputs[k], <<>>)]
                     \o [k \in DOMAIN model.outputs |-> PragmaPart(model.outputs[k], <<>>)]
                     \o <<Part(<<Interface("ap_vld", ports), PipelinePragma(model)>>)>>
                ELSE <<>>)
            \o (IF model.io_type = "io_stream"
                THEN <<Part(<<Interface("axis", ports)>>
                            \o (IF brams # <<>> THEN <<Interface("bram", <<Names(brams)>>)>>
                                ELSE <<>>)
                            \o <<PipelinePragma(model)>>)>>
                ELSE <<>>))

\* Lines 237-245: the declaration of one variable of a layer.
Declare(model, var) ==
    IF var \notin Range(model.inputs) /\ var \notin Range(model.outputs) /\ var.definition
    THEN Assemble(
            <<Part(<<[kind |-> "declaration", name |-> var.name, type_name |-> var.type_name]>>)>>
            \o (IF TruthyPragma(var.pragma) THEN <<PragmaPart(var, <<Code("", TRUE)>>)>>
                ELSE <<>>))
    ELSE Part(<<>>)

Statement(stmt, comment) == [kind |-> "statement", stmt |-> stmt, comment |-> comment]

\* The statements of one layer, each with a same-line comment whatever
\* their number.
Execute_layer_CommentOnEach(model, layer) ==
    LET func == layer.function_cpp
        variables == layer.variables
    IN  IF func.isNone \/ func.stmts = <<>> THEN <<>>
        ELSE [k \in DOMAIN func.stmts |-> Statement(func.stmts[k], Tok(layer.name))]
             \o (IF model.trace_output /\ layer.trace
                 THEN <<Code("#ifndef __SYNTHESIS__", TRUE)>>
                      \o [k \in DOMAIN variables |->
                            [kind |-> "save_layer_output", type_name |-> variables[k].type_name,
                             name |-> variables[k].name, layer |-> layer.name]]
                      \o <<Code("#endif", TRUE)>>
                 ELSE <<>>)
             \o <<Code("", TRUE)>>

\* Lines 247-264: the statements of one layer and its trace calls.
Execute_layer(model, layer) ==
    LET func == layer.function_cpp
        variables == layer.variables
    IN  IF func.isNone \/ func.stmts = <<>> THEN <<>>
        ELSE (IF Len(func.stmts) = 1
              THEN <<Statement(func.stmts[1], Tok(layer.name))>>
              ELSE <<[kind |-> "comment", name |-> layer.name]>>
                   \o [k \in DOMAIN func.stmts |-> Statement(func.stmts[k], NoneItem)])
             \o (IF model.trace_output /\ layer.trace
                 THEN <<Code("#ifndef __SYNTHESIS__", TRUE)>>
                      \o [k \in DOMAIN variables |->
                            [kind |-> "save_layer_output", type_name |-> variables[k].type_name,
                             name |-> variables[k].name, layer |-> layer.name]]
                      \o <<Code("#endif", TRUE)>>
                 ELSE <<>>)
             \o <<Code("", TRUE)>>

\* A layer body written in one pass: each layer's declarations, then its
\* statements.
Layers_OnePass(model, line) ==
    Assemble(
        <<Part(<<Copy(line), Code("", TRUE)>>)>>
        \o Flatten([k \in DOMAIN model.layers |->
                      [j \in DOMAIN model.layers[k].variables |->
                          Declare(model, model.layers[k].variables[j])]
                      \o <<Part(Execute_layer(model, model.layers[k]))>>]))

\* The expansion of the 'insert layers' marker (lines 234-264).
Layers(model, line) ==
    Assemble(
        <<Part(<<Copy(line), Code("", TRUE)>>)>>
        \o Flatten([k \in DOMAIN model.layers |->
                      [j \in DOMAIN model.layers[k].variables |->
                          Declare(model, model.layers[k].variables[j])]])
        \o [k \in DOMAIN model.layers |-> Part(Execute_layer(model, model.layers[k]))])

\* One iteration of the loop over the template (lines 134-268): the string
\* to write, chosen by the first test of the chain that the line passes.
Newline(model, line) ==
    IF Contains(line, "myproject") THEN Part(<<Replaced(line, model.project_name)>>)
    ELSE IF Contains(line, "insert header") THEN Part(Header(model))
    ELSE IF Contains(line, "insert namespace-start") THEN Part(NamespaceStart(model))
    ELSE IF Contains(line, "insert namespace-end") THEN Part(NamespaceEnd(model))
    ELSE IF Contains(line, "insert load weights") THEN Part(LoadWeights(model, line))
    ELSE IF Contains(line, "insert IO") THEN IO(model, line)
    ELSE IF Contains(line, "insert layers") THEN Layers(model, line)
    ELSE Part(<<Copy(line)>>)

(***************************************************************************)
(* Specification of write_project_cpp: every model and template below, one *)
(* call, one template line at a time.                                      *)
(***************************************************************************)
WeightClasses == {"CompressedWeightVariable", "ExponentWeightVariable", "WeightVariable"}

WeightNames == <<"w2", "b2", "s2", "z2", "w4", "b4", "s4", "z4">>

WeightTypes ==
    <<"weight2_t", "bias2_t", "scale2_t", "zero2_t", "weight4_t", "bias4_t", "scale4_t", "zero4_t">>

\* The weights of layer k with the given classes; a weight's nonzero count
\* and data length differ.
WeightsOf(k, classes, storage) ==
    [p \in DOMAIN classes |->
        Weight(WeightNames[(k - 1) * (MaxWeights + 2) + p],
               WeightTypes[(k - 1) * (MaxWeights + 2) + p],
               classes[p], p, MaxWeights + p, storage)]

WeightLists(k) ==
    UNION {{WeightsOf(k, classes, "register") : classes \in [1..n -> WeightClasses]} :
            n \in 0..MaxWeights}

InputVariable(pragma) == GraphVariable("x", "input_t", pragma, TRUE)

OutputVariable == GraphVariable("y", "result_t", TokenPragma(Tok("partition")), TRUE)

HiddenVariable ==
    GraphVariable("layer2_out", "layer2_t", TuplePragma(<<Tok("partition"), Tok("cyclic"), Num(2)>>),
                  TRUE)

GraphLayers(ws1, ws2) ==
    <<Layer("fc1", <<HiddenVariable>>, ws1, FunctionCpp(FALSE, <<"nnet::dense">>), TRUE),
      Layer("relu1", <<OutputVariable>>, ws2,
            FunctionCpp(TRUE, <<"nnet::relu", "nnet::copy">>), FALSE)>>

ModelGraph(layers, txt, namespace, io_type, style, ii, pragma) ==
    [project_name |-> "jet_tagger",
     writer_config |-> [WriteWeightsTxt |-> txt, Namespace |-> namespace],
     io_type |-> io_type, pipeline_style |-> style, pipeline_ii |-> ii, trace_output |-> TRUE,
     inputs |-> <<InputVariable(pragma)>>, outputs |-> <<OutputVariable>>, layers |-> layers]

\* Models that differ in their weights and in the weight-text-file option.
WeightModels ==
    {ModelGraph(GraphLayers(ws1, ws2), txt, NoneItem, "io_parallel", "pipeline", Num(1),
                TokenPragma(Tok("partition"))) :
        txt \in BOOLEAN,
        ws1 \in WeightLists(1),
        ws2 \in WeightLists(2)}

\* Models that differ in the rest of their configuration.
ConfigModels ==
    {ModelGraph(GraphLayers(WeightsOf(1, <<"WeightVariable">>, "register"),
                            WeightsOf(2, <<"WeightVariable">>, storage)),
                TRUE, namespace, io_type, pipe[1], pipe[2], pragma) :
        namespace \in {NoneItem, Tok("hls")},
        storage \in {"register", "BRAM"},
        io_type \in {"io_parallel", "io_stream"},
        pipe \in {<<"pipeline", Num(1)>>, <<"pipeline", NoneItem>>, <<"dataflow", Num(1)>>},
        pragma \in {TokenPragma(Tok("partition")),
                    TuplePragma(<<Tok("stream"), Num(1)>>),
                    TokenPragma(Tok("unroll"))}}

\* Layers that own the same variable, a model input, a variable without a
\* pragma or without a definition, and that have no statement, one or two.
PlainVariable == GraphVariable("layer3_out", "layer3_t", NoPragma, TRUE)

InplaceVariable == GraphVariable("layer5_out", "layer5_t", NoPragma, FALSE)

LayerChoices ==
    {Layer("fc1", <<HiddenVariable>>, <<>>, FunctionCpp(FALSE, <<"nnet::dense">>), TRUE),
     Layer("relu1", <<OutputVariable>>, <<>>, FunctionCpp(TRUE, <<"nnet::relu", "nnet::copy">>),
           FALSE),
     Layer("reshape1", <<HiddenVariable>>, <<>>, PyNone, TRUE),
     Layer("input1", <<InputVariable(TokenPragma(Tok("partition")))>>, <<>>, PyNone, FALSE),
     Layer("merge1", <<PlainVariable, InplaceVariable>>, <<>>,
           FunctionCpp(TRUE, <<"nnet::concatenate">>), TRUE)}

\* A graph has each of its layers once.
LayerLists ==
    UNION {{layers \in [1..n -> LayerChoices] :
                \A i, j \in 1..n : layers[i] = layers[j] => i = j} : n \in 1..MaxLayers}

\* Models that differ in their layers, in any order, and in the tracing option.
LayerModels ==
    {[ModelGraph(layers, FALSE, NoneItem, "io_parallel", "pipeline", Num(1),
                 TokenPragma(Tok("partition")))
        EXCEPT !.trace_output = trace] :
        layers \in LayerLists, trace \in BOOLEAN}

SecondInput == GraphVariable("x2", "input2_t", TokenPragma(Tok("reshape")), TRUE)

SecondOutput ==
    GraphVariable("y2", "result2_t", TuplePragma(<<Tok("reshape"), Tok("block"), Num(2)>>), TRUE)

\* Models that differ in their input and output variables.
PortModels ==
    {[ModelGraph(GraphLayers(<<>>, <<>>), FALSE, NoneItem, io_type, "pipeline", Num(1),
                 TokenPragma(Tok("partition")))
        EXCEPT !.inputs = ins, !.outputs = outs] :
        io_type \in {"io_parallel", "io_stream"},
        ins \in {<<InputVariable(TokenPragma(Tok("partition"))), SecondInput>>,
                 <<SecondInput, InputVariable(TokenPragma(Tok("partition")))>>},
        outs \in {<<OutputVariable>>, <<SecondOutput, OutputVariable>>}}

ModelChoices ==
    {m \in WeightModels : Len(WeightVariables(m)) <= MaxWeights}
        \cup ConfigModels \cup LayerModels \cup PortModels

CppTemplate ==
    <<TemplateLine({"myproject"}),
      TemplateLine({"insert header"}),
      TemplateLine({"insert namespace-start"}),
      TemplateLine({"insert load weights"}),
      TemplateLine({"insert IO"}),
      TemplateLine({"insert layers"}),
      TemplateLine({}),
      TemplateLine({"insert namespace-end"})>>

\* Templates whose lines carry more than one marker, or a marker twice.
Templates ==
    {CppTemplate,
     <<TemplateLine({"myproject", "insert load weights"}),
       TemplateLine({"insert load weights"}),
       TemplateLine({"insert load weights"})>>,
     <<TemplateLine({"insert header", "insert load weights"}),
       TemplateLine({"insert load weights", "insert IO", "insert layers"})>>}

CppCall(model, template) == [op |-> "write_project_cpp", model |-> model, template |-> template]

InitProjectCpp ==
    /\ build_results = NoneMapping /\ heap = EmptyDict
    /\ pc = "idle" /\ ret = NoOutcome /\ steps = <<>>
    /\ child = NoChild /\ parsed = 0 /\ fs = {}
    /\ sim_data = PyNone /\ stitched_report = EmptyDict
    /\ testbench = <<>> /\ tb = NoTestbench /\ log = <<>> /\ stdout = <<>> /\ fout = <<>>
    /\ \E model \in ModelChoices, template \in Templates : call = CppCall(model, template)

\* Lines 122-132: the template and the output file are opened.
OpenProjectCpp ==
    /\ pc = "idle"
    /\ call.op = "write_project_cpp"
    /\ pc' = "lines"
    /\ fout' = <<>>
    /\ UNCHANGED <<build_results, heap, ret, call, steps, child, parsed, fs, sim_data>>
    /\ UNCHANGED <<stitched_report, testbench, tb, log, stdout>>

\* Lines 134-270: one template line is expanded and written; an exception
\* raised while the string is built leaves the call before the write.
ExpandLine ==
    /\ pc = "lines"
    /\ Len(fout) < Len(call.template)
    /\ LET r == Newline(call.model, call.template[Len(fout) + 1])
       IN  IF r.exc # ""
           THEN /\ ret' = Outcome("raise", r.exc, PyNone)
                /\ pc' = "done"
                /\ fout' = fout
           ELSE /\ fout' = Append(fout, r.pieces)
                /\ UNCHANGED <<ret, pc>>
    /\ UNCHANGED <<build_results, heap, call, steps, child, parsed, fs, sim_data>>
    /\ UNCHANGED <<stitched_report, testbench, tb, log, stdout>>

\* Lines 272-273: the files are closed and the call returns None.
CloseProjectCpp ==
    /\ pc = "lines"
    /\ Len(fout) = Len(call.template)
    /\ ret' = Outcome("return", "", PyNone)
    /\ pc' = "done"
    /\ UNCHANGED <<build_results, heap, call, steps, child, parsed, fs, sim_data>>
    /\ UNCHANGED <<stitched_report, testbench, tb, log, stdout, fout>>

NextProjectCpp == OpenProjectCpp \/ ExpandLine \/ CloseProjectCpp

SpecProjectCpp == InitProjectCpp /\ [][NextProjectCpp]_vars

(***************************************************************************)
(* The other template writers: write_project_header, write_defines,        *)
(* write_parameters, write_test_bench, write_bridge and                    *)
(* write_bridge_multigraph.  Each, like write_project_cpp, reads its       *)
(* template line by line and writes one string per line, chosen by the     *)
(* first test of its own chain that the line passes.  The text a marker    *)
(* of these writers generates is a piece that names the marker and the     *)
(* objects the text is generated for; the tb_input_writer marker of        *)
(* write_bridge_multigraph is rendered loop by loop.                       *)
(***************************************************************************)
\* str.upper() of a project name.
UpperName(name) ==
    CASE name = "jet_tagger" -> "JET_TAGGER"
      [] name = "jet_tagger_graph1" -> "JET_TAGGER_GRAPH1"
      [] name = "jet_tagger_graph2" -> "JET_TAGGER_GRAPH2"
      [] OTHER -> name

\* line.replace('MYPROJECT', name.upper()): the uppercase token is gone, the
\* rest of the line, the lowercase token and the markers included, stays.
ReplacedUpper(line, name) ==
    [kind |-> "replaced", line |-> TemplateLine(line.markers \ {"MYPROJECT"}),
     project |-> UpperName(name)]

\* line.replace('myproject', name) on a line that holds 'firmware/myproject':
\* the include path loses its token with every other lowercase token.
ReplacedInclude(line, name) ==
    [kind |-> "replaced",
     line |-> TemplateLine(line.markers \ {"myproject", "firmware/myproject"}),
     project |-> name]

\* The text generated for a marker from the named objects.
Expansion(marker, subjects) == [kind |-> "expansion", marker |-> marker, subjects |-> subjects]

LayerNames(model) == [k \in DOMAIN model.layers |-> model.layers[k].name]

\* The 'using namespace' line of the test bench and of the bridge.
UsingNamespace(model) ==
    IF model.writer_config.Namespace # NoneItem
    THEN <<[kind |-> "using namespace", name |-> model.writer_config.Namespace]>>
    ELSE <<>>

\* A header writer that looks for the markers before the tokens.
HeaderNewline_MarkersFirst(model, line) ==
    IF Contains(line, "insert header") THEN Part(Header(model))
    ELSE IF Contains(line, "insert namespace-start") THEN Part(NamespaceStart(model))
    ELSE IF Contains(line, "insert namespace-end") THEN Part(NamespaceEnd(model))
    ELSE IF Contains(line, "MYPROJECT") THEN Part(<<ReplacedUpper(line, model.project_name)>>)
    ELSE IF Contains(line, "myproject") THEN Part(<<Replaced(line, model.project_name)>>)
    ELSE Part(<<Copy(line)>>)

\* write_project_header, one iteration of the loop (lines 292-327).
HeaderNewline(model, line) ==
    IF Contains(line, "MYPROJECT") THEN Part(<<ReplacedUpper(line, model.project_name)>>)
    ELSE IF Contains(line, "myproject") THEN Part(<<Replaced(line, model.project_name)>>)
    ELSE IF Contains(line, "insert header") THEN Part(Header(model))
    ELSE IF Contains(line, "insert namespace-start") THEN Part(NamespaceStart(model))
    ELSE IF Contains(line, "insert namespace-end") THEN Part(NamespaceEnd(model))
    ELSE Part(<<Copy(line)>>)

\* write_defines, one iteration of the loop (lines 342-386): no test for the
\* project-name token.
DefinesNewline(model, line) ==
    IF Contains(line, "insert numbers")
    THEN Part(<<Copy(line), Expansion("insert numbers", LayerNames(model))>>)
    ELSE IF Contains(line, "insert layer-precision")
    THEN Part(<<Copy(line), Expansion("insert layer-precision", LayerNames(model))>>)
    ELSE IF Contains(line, "insert namespace-start") THEN Part(NamespaceStart(model))
    ELSE IF Contains(line, "insert namespace-end") THEN Part(NamespaceEnd(model))
    ELSE Part(<<Copy(line)>>)

RECURSIVE SelectNotBrams(_)
\* [w for w in weights if w.storage.lower() != 'bram']
SelectNotBrams(weights) ==
    IF weights = <<>> THEN <<>>
    ELSE (IF Lower(Head(weights).storage) # "bram" THEN <<Head(weights)>> ELSE <<>>)
         \o SelectNotBrams(Tail(weights))

\* write_parameters, one iteration of the loop (lines 400-437): no test for
\* the project-name token.
ParametersNewline(model, line) ==
    IF Contains(line, "insert includes")
    THEN Part(<<Copy(line), Expansion("insert includes", LayerNames(model))>>)
    ELSE IF Contains(line, "insert weights")
    THEN Part(<<Copy(line),
                Expansion("insert weights", Names(SelectNotBrams(WeightVariables(model))))>>)
    ELSE IF Contains(line, "insert layer-config")
    THEN Part(<<Copy(line), Expansion("insert layer-config", LayerNames(model))>>)
    ELSE IF Contains(line, "insert namespace-start") THEN Part(NamespaceStart(model))
    ELSE IF Contains(line, "insert namespace-end") THEN Part(NamespaceEnd(model))
    ELSE Part(<<Copy(line)>>)

\* write_test_bench, one iteration of the loop (lines 532-617): only the
\* lowercase token is tested.
TestBenchNewline(model, line) ==
    LET brams == Names(SelectBrams(WeightVariables(model)))
        ins == Names(model.inputs)
        outs == Names(model.outputs)
    IN  IF Contains(line, "myproject") THEN Part(<<Replaced(line, model.project_name)>>)
        ELSE IF Contains(line, "insert bram")
        THEN Part(<<Copy(line), Expansion("insert bram", brams)>>)
        ELSE IF Contains(line, "insert data")
        THEN Part(<<Copy(line), Expansion("insert data", ins \o outs)>>)
        ELSE IF Contains(line, "insert zero")
        THEN Part(<<Copy(line), Expansion("insert zero", ins \o outs)>>)
        ELSE IF Contains(line, "insert top-level-function")
        THEN Part(<<Copy(line),
                    Expansion("insert top-level-function",
                              <<model.project_name>> \o ins \o outs \o brams)>>)
        ELSE IF Contains(line, "insert predictions")
        THEN Part(<<Copy(line), Expansion("insert predictions", outs)>>)
        ELSE IF Contains(line, "insert tb-output")
        THEN Part(<<Copy(line), Expansion("insert tb-output", outs)>>)
        ELSE IF Contains(line, "insert output") \/ Contains(line, "insert quantized")
        THEN Part(<<Copy(line),
                    Expansion(IF Contains(line, "insert output")
                              THEN "insert output" ELSE "insert quantized", outs)>>)
        ELSE IF Contains(line, "insert namespace") THEN Part(UsingNamespace(model))
        ELSE Part(<<Copy(line)>>)

\* The layers whose outputs are traced (lines 693-702 and 819-829).
TracedLayers(model) ==
    SelectSeq(model.layers,
              LAMBDA layer : ~layer.function_cpp.isNone /\ model.trace_output /\ layer.trace)

\* write_bridge, one iteration of the loop (lines 638-713).
BridgeNewline(model, line) ==
    LET brams == Names(SelectBrams(WeightVariables(model)))
        ins == Names(model.inputs)
        outs == Names(model.outputs)
    IN  IF Contains(line, "MYPROJECT") THEN Part(<<ReplacedUpper(line, model.project_name)>>)
        ELSE IF Contains(line, "myproject") THEN Part(<<Replaced(line, model.project_name)>>)
        ELSE IF Contains(line, "insert bram")
        THEN Part(<<Copy(line), Expansion("insert bram", brams)>>)
        ELSE IF Contains(line, "insert header")
        THEN Part(<<Expansion("insert header", ins \o outs)>>)
        ELSE IF Contains(line, "insert wrapper")
        THEN Part(<<Expansion("insert wrapper",
                              <<model.project_name>> \o ins \o outs \o brams)>>)
        ELSE IF Contains(line, "insert trace_outputs")
        THEN Part(<<Expansion("insert trace_outputs",
                              [k \in DOMAIN TracedLayers(model) |-> TracedLayers(model)[k].name])>>)
        ELSE IF Contains(line, "insert namespace") THEN Part(UsingNamespace(model))
        ELSE Part(<<Copy(line)>>)

(***************************************************************************)
(* write_bridge_multigraph.  A multigraph model holds its subgraphs and    *)
(* nn_config, whose 'inputs' list has one entry per described input port.  *)
(***************************************************************************)
\* An input or output variable of a subgraph: stream says whether its
\* definition starts with hls::stream, shape is its list of dimensions.
PortVariable(name, type_name, stream, shape) ==
    [name |-> name, type_name |-> type_name, stream |-> stream, shape |-> shape]

\* An entry of nn_config['inputs'].
PortEntry(name, fifo_depth, batch_size) ==
    [name |-> name, fifo_depth |-> Num(fifo_depth), batch_size |-> Num(batch_size)]

SubGraph(project_name, inputs, outputs, weights) ==
    [project_name |-> project_name, inputs |-> inputs, outputs |-> outputs, weights |-> weights]

MultiGraph(graphs, entries, namespace, layers) ==
    [project_name |-> "jet_tagger", graphs |-> graphs, nn_config |-> [inputs |-> entries],
     writer_config |-> [Namespace |-> namespace], trace_output |-> TRUE, layers |-> layers]

\* next((e[field] for e in inputs_list if e['name'] == name), None)
Lookup(inputs_list, name, field) ==
    LET found == {k \in DOMAIN inputs_list : inputs_list[k].name = name}
    IN  IF found = {} THEN NoneItem
        ELSE inputs_list[CHOOSE k \in found : \A j \in found : k <= j][field]

\* The product of the dimensions (size_cpp).
RECURSIVE Size(_)
Size(shape) == IF shape = <<>> THEN 1 ELSE Head(shape) * Size(Tail(shape))

\* Lines 874-900: the loop that dumps one input.  A value that is None is
\* formatted into the text as it is.
DumpLoop(model, inp) ==
    IF inp.stream
    THEN IF Len(inp.shape) = 1
         THEN [kind |-> "tb_loop", name |-> inp.name, n |-> Num(inp.shape[1])]
         ELSE [kind |-> "tb_batch_loop", name |-> inp.name,
               fifo_depth |-> Lookup(model.nn_config.inputs, inp.name, "fifo_depth"),
               batch_size |-> Lookup(model.nn_config.inputs, inp.name, "batch_size")]
    ELSE [kind |-> "tb_loop", name |-> inp.name, n |-> Num(Size(inp.shape))]

\* Lines 853-902: one dump function.  The output file is named after the
\* last input, the value of the loop variable once the loop has ended.
DumpFunction(model, dtype, funcname) ==
    LET model_inputs == model.graphs[1].inputs
    IN  <<[kind |-> "tb_signature", dtype |-> dtype, funcname |-> funcname,
           inputs |-> Names(model_inputs)]>>
        \o [k \in DOMAIN model_inputs |->
                [kind |-> "tb_convert", dtype |-> dtype, name |-> model_inputs[k].name,
                 type_name |-> model_inputs[k].type_name]]
        \o <<[kind |-> "tb_open", name |-> model_inputs[Len(model_inputs)].name]>>
        \o [k \in DOMAIN model_inputs |-> DumpLoop(model, model_inputs[k])]
        \o <<Code("fout.close();", TRUE), Code("}", TRUE)>>

\* The expansion of the 'insert tb_input_writer' marker (lines 847-903).
TbInputWriter(model) ==
    DumpFunction(model, "float", "dump_tb_inputs_float")
        \o DumpFunction(model, "double", "dump_tb_inputs_double")

\* Lines 737-748: the include line, once per subgraph.
GraphInclude(model, line, graph_idx) ==
    LET g == model.graphs[graph_idx]
        single == Len(g.outputs) = 1
    IN  <<Code("#undef DEFINES_H_", TRUE)>>
        \o (IF single
            THEN <<[kind |-> "define", name |-> "result_t", graph |-> Num(graph_idx)]>>
            ELSE <<>>)
        \o <<ReplacedInclude(line, g.project_name)>>
        \o (IF single
            THEN <<[kind |-> "typedef", name |-> "result_t", graph |-> Num(graph_idx)],
                   Code(IF graph_idx < Len(model.graphs) THEN "#undef result_t" ELSE "", TRUE)>>
            ELSE <<>>)

Includes(model, line) ==
    Flatten([k \in DOMAIN model.graphs |-> GraphInclude(model, line, k)]) \o <<Code("", TRUE)>>

\* write_bridge_multigraph, one iteration of the loop (lines 733-906).
MultigraphNewline(model, line) ==
    LET first == model.graphs[1]
        last == model.graphs[Len(model.graphs)]
        brams == Names(SelectBrams(first.weights))
        ins == Names(first.inputs)
        outs == Names(last.outputs)
        projects == [k \in DOMAIN model.graphs |-> model.graphs[k].project_name]
    IN  IF Contains(line, "MYPROJECT") THEN Part(<<ReplacedUpper(line, model.project_name)>>)
        ELSE IF Contains(line, "firmware/myproject") THEN Part(Includes(model, line))
        ELSE IF Contains(line, "myproject") THEN Part(<<Replaced(line, model.project_name)>>)
        ELSE IF Contains(line, "insert bram")
        THEN Part(<<Copy(line), Expansion("insert bram", brams)>>)
        ELSE IF Contains(line, "insert header")
        THEN Part(<<Expansion("insert header", ins \o outs)>>)
        ELSE IF Contains(line, "insert wrapper")
        THEN Part(<<Expansion("insert wrapper", projects \o ins \o outs)>>)
        ELSE IF Contains(line, "insert trace_outputs")
        THEN Part(<<Expansion("insert trace_outputs",
                              [k \in DOMAIN TracedLayers(model) |-> TracedLayers(model)[k].name])>>)
        ELSE IF Contains(line, "insert namespace") THEN Part(UsingNamespace(model))
        ELSE IF Contains(line, "insert tb_input_writer") THEN Part(TbInputWriter(model))
        ELSE Part(<<Copy(line)>>)

\* The string a writer writes for a template line.
WriterNewline(writer, model, line) ==
    CASE writer = "write_project_cpp" -> Newline(model, line)
      [] writer = "write_project_header" -> HeaderNewline(model, line)
      [] writer = "write_defines" -> DefinesNewline(model, line)
      [] writer = "write_parameters" -> ParametersNewline(model, line)
      [] writer = "write_test_bench" -> TestBenchNewline(model, line)
      [] writer = "write_bridge" -> BridgeNewline(model, line)
      [] writer = "write_bridge_multigraph" -> MultigraphNewline(model, line)

(***************************************************************************)
(* Specification of the template writers: every writer, model and template *)
(* below, one call, one template line at a time.                           *)
(***************************************************************************)
Writers ==
    {"write_project_cpp", "write_project_header", "write_defines", "write_parameters", "write_test_bench",
     "write_bridge", "write_bridge_multigraph"}

\* The markers of each writer, in the order its chain tests them.
WriterMarkers(writer) ==
    CASE writer = "write_project_cpp" ->
            <<"insert header", "insert namespace-start", "insert namespace-end",
              "insert load weights", "insert IO", "insert layers">>
      [] writer = "write_project_header" ->
            <<"insert header", "insert namespace-start", "insert namespace-end">>
      [] writer = "write_defines" ->
            <<"insert numbers", "insert layer-precision", "insert namespace-start",
              "insert namespace-end">>
      [] writer = "write_parameters" ->
            <<"insert includes", "insert weights", "insert layer-config",
              "insert namespace-start", "insert namespace-end">>
      [] writer = "write_test_bench" ->
            <<"insert bram", "insert data", "insert zero", "insert top-level-function",
              "insert predictions", "insert tb-output", "insert output", "insert quantized",
              "insert namespace">>
      [] writer = "write_bridge" ->
            <<"insert bram", "insert header", "insert wrapper", "insert trace_outputs",
              "insert namespace">>
      [] writer = "write_bridge_multigraph" ->
            <<"insert bram", "insert header", "insert wrapper", "insert trace_outputs",
              "insert namespace", "insert tb_input_writer">>

\* A template with each token and each marker on a line of its own, one
\* whose lines carry both tokens or a token and a marker, and one whose line
\* carries two markers.
WriterTemplates(writer) ==
    LET ms == WriterMarkers(writer)
        include == IF writer = "write_bridge_multigraph"
                   THEN <<TemplateLine({"firmware/myproject", "myproject"})>>
                   ELSE <<>>
    IN  {<<TemplateLine({"MYPROJECT"})>> \o include \o <<TemplateLine({"myproject"})>>
            \o [k \in DOMAIN ms |-> TemplateLine({ms[k]})] \o <<TemplateLine({})>>,
         <<TemplateLine({"MYPROJECT", "myproject"}),
           TemplateLine({"myproject", ms[1]}),
           TemplateLine({"MYPROJECT", ms[Len(ms)]}),
           TemplateLine({})>>,
         <<TemplateLine({ms[1], ms[Len(ms)]}), TemplateLine({ms[Len(ms)]})>>}

\* Models of one graph: with and without a namespace and a bram weight.
WriterModels ==
    {ModelGraph(GraphLayers(WeightsOf(1, <<"WeightVariable">>, "register"),
                            WeightsOf(2, <<"WeightVariable">>, storage)),
                TRUE, namespace, "io_parallel", "pipeline", Num(1),
                TokenPragma(Tok("partition"))) :
        namespace \in {NoneItem, Tok("hls")},
        storage \in {"register", "BRAM"}}

\* Input variables of the first subgraph: a stream of one dimension, a
\* stream of two, an array, and two streams of two dimensions.
MultigraphInputs ==
    {<<PortVariable("x", "input_t", TRUE, <<4>>)>>,
     <<PortVariable("x", "input_t", TRUE, <<2, 2>>)>>,
     <<PortVariable("x", "input_t", FALSE, <<2, 2>>)>>,
     <<PortVariable("x", "input_t", TRUE, <<2, 2>>),
       PortVariable("x2", "input2_t", TRUE, <<2, 2>>)>>}

\* nn_config['inputs']: no entry, an entry for each input, or for one only.
PortEntries ==
    {<<>>}
    \cup {<<PortEntry("x", d, 2)>> : d \in 1..MaxDepth}
    \cup {<<PortEntry("x2", d, 2)>> : d \in 1..MaxDepth}
    \cup {<<PortEntry("x", d, 2), PortEntry("x2", 1, 2)>> : d \in 1..MaxDepth}

MultigraphModels ==
    {MultiGraph(<<SubGraph("jet_tagger_graph1", ins,
                           <<PortVariable("layer2_out", "layer2_t", FALSE, <<4>>)>>,
                           WeightsOf(1, <<"WeightVariable">>, "BRAM")),
                  SubGraph("jet_tagger_graph2",
                           <<PortVariable("layer2_out", "layer2_t", FALSE, <<4>>)>>,
                           outs, <<>>)>>,
                entries, NoneItem, GraphLayers(<<>>, <<>>)) :
        ins \in MultigraphInputs,
        outs \in {<<PortVariable("y", "result_t", FALSE, <<2>>)>>,
                  <<PortVariable("y", "result_t", FALSE, <<2>>),
                    PortVariable("y2", "result2_t", FALSE, <<2>>)>>},
        entries \in PortEntries}

ModelsOf(writer) ==
    IF writer = "write_bridge_multigraph" THEN MultigraphModels ELSE WriterModels

WriterCall(writer, model, template) == [op |-> writer, model |-> model, template |-> template]

InitWriters ==
    /\ build_results = NoneMapping /\ heap = EmptyDict
    /\ pc = "idle" /\ ret = NoOutcome /\ steps = <<>>
    /\ child = NoChild /\ parsed = 0 /\ fs = {}
    /\ sim_data = PyNone /\ stitched_report = EmptyDict
    /\ testbench = <<>> /\ tb = NoTestbench /\ log = <<>> /\ stdout = <<>> /\ fout = <<>>
    /\ \E writer \in Writers :
        \E model \in ModelsOf(writer), template \in WriterTemplates(writer) :
            call = WriterCall(writer, model, template)

\* The template and the output file are opened (for write_project_header,
\* lines 283-290).
OpenTemplate ==
    /\ pc = "idle"
    /\ call.op \in Writers
    /\ pc' = "lines"
    /\ fout' = <<>>
    /\ UNCHANGED <<build_results, heap, ret, call, steps, child, parsed, fs, sim_data>>
    /\ UNCHANGED <<stitched_report, testbench, tb, log, stdout>>

\* One template line is expanded and written (for write_project_header,
\* lines 292-327).
WriteLine ==
    /\ pc = "lines"
    /\ call.op \in Writers
    /\ Len(fout) < Len(call.template)
    /\ LET r == WriterNewline(call.op, call.model, call.template[Len(fout) + 1])
       IN  IF r.exc # ""
           THEN /\ ret' = Outcome("raise", r.exc, PyNone)
                /\ pc' = "done"
                /\ fout' = fout
           ELSE /\ fout' = Append(fout, r.pieces)
                /\ UNCHANGED <<ret, pc>>
    /\ UNCHANGED <<build_results, heap, call, steps, child, parsed, fs, sim_data>>
    /\ UNCHANGED <<stitched_report, testbench, tb, log, stdout>>

\* The files are closed and the call returns None (for write_project_header,
\* lines 329-330).
CloseTemplate ==
    /\ pc = "lines"
    /\ call.op \in Writers
    /\ Len(fout) = Len(call.template)
    /\ ret' = Outcome("return", "", PyNone)
    /\ pc' = "done"
    /\ UNCHANGED <<build_results, heap, call, steps, child, parsed, fs, sim_data>>
    /\ UNCHANGED <<stitched_report, testbench, tb, log, stdout, fout>>

NextWriters == OpenTemplate \/ WriteLine \/ CloseTemplate

SpecWriters == InitWriters /\ [][NextWriters]_vars

(***************************************************************************)
(* Properties of the aggregator (checked under SpecAggregate).             *)
(***************************************************************************)
Done == pc = "done" /\ call.op = "aggregate"

\* The call returned {'CSynthesisReport': final_report}.
Returned == Done /\ ret.kind = "return" /\ "CSynthesisReport" \in DOMAIN ret.value

Combined == heap[ret.value["CSynthesisReport"]]

NumSubgraphs == Len(build_results.items)

InputReport(i) == ReportOrEmpty(build_results.items[i].data, heap)

\* The numeric value of a decimal text, in units of 10^-FloatDigits.
NumValue(t) == t.mant * Pow10(FloatDigits - t.dec)

\* Two decimal texts denote the same number.
SameNumber(t, u) ==
    LET d == Max2(t.dec, u.dec)
    IN  t.mant * Pow10(d - t.dec) = u.mant * Pow10(d - u.dec)

Abs(x) == IF x < 0 THEN -x ELSE x

ZeroText == Text(0, 0)

FiveText == Text(500, 2)

CapacityText(k) ==
    CASE k = "AvailableBRAM_18K" -> Text(5376, 0)
      [] k = "AvailableDSP"      -> Text(12288, 0)
      [] k = "AvailableFF"       -> Text(3456000, 0)
      [] k = "AvailableLUT"      -> Text(1728000, 0)
      [] k = "AvailableURAM"     -> Text(1280, 0)

RECURSIVE SumField(_, _)
\* The sum of field k over subgraphs 1..i, a missing field counting as 0.
SumField(k, i) ==
    IF i = 0 THEN 0 ELSE SumField(k, i - 1) + Get(InputReport(i), k, ZeroText).mant

\* The largest value of field k over all subgraphs, a missing field counting as d.
MaxField(k, d) == SetMax({NumValue(Get(InputReport(i), k, d)) : i \in 1..NumSubgraphs})

\* C1: with two or more subgraphs the combined WorstLatency is the maximum of
\* the subgraphs' WorstLatency values.  (The code adds every later subgraph's
\* latency on top of the maximum, so this is violated: 100 and 250 give 500.)
C1_WorstLatencyIsMax ==
    (Returned /\ NumSubgraphs >= 2) =>
        Combined["WorstLatency"] =
            Text(SetMax({Get(InputReport(i), "WorstLatency", ZeroText).mant :
                            i \in 1..NumSubgraphs}), 0)

\* C2: each of the combined BRAM_18K, DSP, FF, LUT and URAM fields is the sum
\* of that field over all subgraphs, every subgraph counted exactly once.
C2_ResourcesAreSums ==
    Returned =>
        \A k \in ResourceKeys :
            k \in DOMAIN Combined /\ Combined[k] = Text(SumField(k, NumSubgraphs), 0)

\* Two subgraphs with DSP 40 and 60 were aggregated to DSP 100.
C2_Witness ==
    /\ Returned /\ NumSubgraphs = 2
    /\ Get(InputReport(1), "DSP", ZeroText) = Text(40, 0)
    /\ Get(InputReport(2), "DSP", ZeroText) = Text(60, 0)
    /\ Combined["DSP"] = Text(100, 0)

\* C3: the combined EstimatedClockPeriod is written with exactly 3 decimals,
\* and its value is the maximum of the subgraphs' EstimatedClockPeriod values
\* (a subgraph without the field counting as the 5.00 the code reads for it)
\* rounded to 3 decimals: re-parsing it gives the maximum to within 0.0005.
C3_EstimatedClockIsRenderedMax ==
    Returned =>
        /\ "EstimatedClockPeriod" \in DOMAIN Combined
        /\ Combined["EstimatedClockPeriod"].dec = 3
        /\ 2 * Abs(NumValue(Combined["EstimatedClockPeriod"])
                    - MaxField("EstimatedClockPeriod", FiveText))
                <= Pow10(FloatDigits - 3)

\* The maximum 4.1234 came from the second subgraph and was rendered '4.123'.
C3_Witness ==
    /\ Returned /\ NumSubgraphs = 2
    /\ Get(InputReport(1), "EstimatedClockPeriod", FiveText) = Text(3650, 3)
    /\ Get(InputReport(2), "EstimatedClockPeriod", FiveText) = Text(41234, 4)
    /\ Combined["EstimatedClockPeriod"] = Text(4123, 3)

\* C4: the combined TargetClockPeriod and Available* fields are those of the
\* iteration-order-first subgraph's report (the default where that report
\* lacks the field); no later subgraph changes them.
C4_BaselineFromFirst ==
    Returned =>
        /\ "TargetClockPeriod" \in DOMAIN Combined
        /\ Combined["TargetClockPeriod"] = Get(InputReport(1), "TargetClockPeriod", FiveText)
        /\ \A k \in AvailableKeys :
            k \in DOMAIN Combined /\ Combined[k] = Get(InputReport(1), k, CapacityText(k))

\* A later subgraph had other TargetClockPeriod and Available* values.
C4_Witness ==
    /\ Returned /\ NumSubgraphs = 2
    /\ InputReport(1) = FullReport(1)
    /\ InputReport(2) = FullReport(2)
    /\ Combined["TargetClockPeriod"] = Text(500, 2)
    /\ Combined["AvailableDSP"] = Text(12288, 0)

\* The input mapping with every missing field of every report filled in: clock
\* periods with clock, the other numeric fields with 0, Available* with the
\* capacity constants.
FilledReport(r, clock) ==
    [k \in ReportKeys |->
        IF k \in DOMAIN r THEN r[k]
        ELSE IF k \in AvailableKeys THEN CapacityText(k)
        ELSE IF k \in {"TargetClockPeriod", "EstimatedClockPeriod"} THEN clock
        ELSE ZeroText]

FilledMapping ==
    Mapping([i \in 1..NumSubgraphs |->
        [key |-> build_results.items[i].key, data |-> [k \in {"CSynthesisReport"} |-> i]]])

FilledHeap(clock) == [i \in 1..NumSubgraphs |-> FilledReport(InputReport(i), clock)]

\* The call was given a non-empty mapping whose first entry holds a report.
HasBaseReport ==
    /\ ~build_results.isNone
    /\ NumSubgraphs >= 1
    /\ "CSynthesisReport" \in DOMAIN build_results.items[1].data

\* The call returned what aggregating the filled-in mapping returns.
SubstitutesDefaults(clock) ==
    /\ Returned
    /\ \E up \in BOOLEAN :
        Combined = aggregate_build_results(FilledMapping, FilledHeap(clock), up).value

C6_EmptyInputGivesEmptyMapping ==
    (Done /\ (build_results.isNone \/ NumSubgraphs = 0)) =>
        /\ ret = Outcome("return", "", EmptyDict)
        /\ heap = EmptyDict

\* The call was made with an empty mapping and has returned.
C6_Witness == Done /\ ~build_results.isNone /\ NumSubgraphs = 0 /\ ret.kind = "return"

\* The call was given exactly one subgraph, whose report has every field.
SingleFullSubgraph ==
    /\ Done /\ HasBaseReport /\ NumSubgraphs = 1
    /\ DOMAIN InputReport(1) = ReportKeys

\* C7 as stated: for a single subgraph with all fields present, every combined
\* field has the same numeric value as in that subgraph's report.
C7_SingleSubgraphIdentity ==
    SingleFullSubgraph =>
        /\ Returned
        /\ DOMAIN Combined = ReportKeys
        /\ \A k \in ReportKeys : SameNumber(Combined[k], InputReport(1)[k])

\* C7 (amended): for a single subgraph with all fields present, every combined
\* field has the same numeric value as in that subgraph's report, except that
\* EstimatedClockPeriod is that value rounded to 3 decimal places.
C7_SingleSubgraphIdentityUpToRounding ==
    SingleFullSubgraph =>
        /\ Returned
        /\ DOMAIN Combined = ReportKeys
        /\ \A k \in ReportKeys \ {"EstimatedClockPeriod"} :
            SameNumber(Combined[k], InputReport(1)[k])
        /\ Combined["EstimatedClockPeriod"].dec = 3
        /\ 2 * Abs(NumValue(Combined["EstimatedClockPeriod"])
                    - NumValue(InputReport(1)["EstimatedClockPeriod"]))
                <= Pow10(FloatDigits - 3)

\* A single complete report with EstimatedClockPeriod '4.1234' gave '4.123'.
C7_Witness ==
    /\ SingleFullSubgraph /\ Returned
    /\ InputReport(1)["EstimatedClockPeriod"] = Text(41234, 4)
    /\ Combined["EstimatedClockPeriod"] = Text(4123, 3)
    /\ Combined["WorstLatency"] = InputReport(1)["WorstLatency"]

(***************************************************************************)
(* Properties of the orchestrator (checked under SpecOrchestrator).        *)
(***************************************************************************)
StepSet == {steps[i] : i \in 1..Len(steps)}

BuildEnded == call.op = "build" /\ pc = "done"

InstallationNotFound == ret = Raise("Exception", "Vitis HLS installation not found", "")

\* What C9 says of a nonzero exit and of parsing, apart from the number of
\* invocations.
BuildFailureHandling ==
    /\ parsed <= 1
    /\ parsed = 1 => (child.state = "exited" /\ child.returncode = 0)
    /\ ret.kind = "return" => parsed = 1
    /\ (pc = "done" /\ child.state = "exited" /\ child.returncode # 0) =>
            /\ ret.kind = "raise"
            /\ ret.value.project = call.project
            /\ parsed = 0

\* C9 as stated: every build call invokes the synthesis tool exactly once; a
\* nonzero exit fails the call with an error naming the project, without a
\* second invocation and without parsing; the report is parsed only after
\* exit code 0.
C9_BuildInvokesToolExactlyOnce ==
    call.op = "build" =>
        /\ child.spawned <= 1
        /\ pc = "done" => child.spawned = 1
        /\ BuildFailureHandling

\* C9 (amended): a build call invokes the synthesis tool at most once, and
\* exactly once unless the installation check fails first (then the call
\* fails without invoking it); a nonzero exit fails the call with an error
\* naming the project, without a second invocation and without parsing; the
\* report is parsed only after exit code 0.
C9_BuildInvokesToolOnceAfterCheck ==
    call.op = "build" =>
        /\ child.spawned <= 1
        /\ pc = "done" => (IF InstallationNotFound THEN child.spawned = 0 ELSE child.spawned = 1)
        /\ BuildFailureHandling

\* A build whose tool exited with a nonzero code has failed.
C9_Witness ==
    /\ BuildEnded
    /\ child.spawned = 1 /\ child.state = "exited" /\ child.returncode = 1
    /\ ret = Raise("Exception", "Build failed for", call.project)
    /\ parsed = 0

StitchOrder ==
    <<"makedirs", "copy", "write_nn_config", "generate_testbench", "popen",
      "communicate", "check_returncode", "aggregate", "read_testbench_log", "fold">>

StitchIndex(step) == CHOOSE i \in 1..Len(StitchOrder) : StitchOrder[i] = step

\* C10: a stitch call takes its steps in the order directory, script copy,
\* optional nn_config JSON, optional testbench, tool invocation, exit, exit
\* code check; the aggregator and the log reader run only after exit code 0;
\* a nonzero exit fails the call with an error naming the project and no
\* combined report is created.
C10_StitchStepsInOrder ==
    call.op = "stitch" =>
        /\ \A i, j \in 1..Len(steps) :
            i < j => StitchIndex(steps[i]) < StitchIndex(steps[j])
        /\ "popen" \in StepSet =>
            /\ {"makedirs", "copy"} \subseteq StepSet
            /\ Truthy(call.nn_config) <=> "write_nn_config" \in StepSet
            /\ call.sim <=> "generate_testbench" \in StepSet
        /\ "communicate" \in StepSet => "popen" \in StepSet
        /\ "check_returncode" \in StepSet =>
            ("communicate" \in StepSet /\ child.state = "exited")
        /\ StepSet \cap {"aggregate", "read_testbench_log", "fold"} # {} =>
            ("check_returncode" \in StepSet /\ child.returncode = 0)
        /\ (pc = "done" /\ child.state = "exited" /\ child.returncode # 0) =>
            /\ ret = Raise("Exception", "Stitching failed for", call.project)
            /\ "aggregate" \notin StepSet
            /\ stitched_report = EmptyDict
            /\ DOMAIN heap \subseteq SourceAddrs(build_results)

\* A stitch call with a network configuration and simulation requested has
\* taken every step up to the reading of the simulation log.
C10_Witness ==
    /\ call.op = "stitch" /\ pc = "done"
    /\ steps = <<"makedirs", "copy", "write_nn_config", "generate_testbench", "popen",
                 "communicate", "check_returncode", "aggregate", "read_testbench_log">>

\* A stitch call whose tool exited with a nonzero code has failed.
C10_WitnessFailure ==
    /\ call.op = "stitch" /\ pc = "done"
    /\ child.returncode = 1
    /\ ret = Raise("Exception", "Stitching failed for", call.project)

(***************************************************************************)
(* Properties of the simulation log and its reader.                        *)
(***************************************************************************)
\* A log as a completed simulation leaves it: one latency_cycles row.
WellFormedLog(rows) == Len(RowsOf(rows, "latency_cycles")) = 1

\* The output names with a row in the log.
LoggedNames(rows) == {rows[i].output_name : i \in DOMAIN rows} \ {"latency_cycles"}

\* The latency the log's latency_cycles row states, as an integer.
LoggedLatency(rows) == ToInt(RowsOf(rows, "latency_cycles")[1].value)

\* A stitch call with simulation requested whose tool has exited with code 0,
\* whose simulation has left a complete log and whose subgraph reports have
\* been aggregated.
SimulatedStitch ==
    /\ call.op = "stitch" /\ call.sim
    /\ child.state = "exited" /\ child.returncode = 0
    /\ "testbench_log.csv" \in fs /\ WellFormedLog(log)
    /\ "CSynthesisReport" \in DOMAIN stitched_report

\* C11: a stitch call with simulation requested, a tool that exited with code
\* 0 and a simulation log in place returns the combined report, which holds
\* the aggregated synthesis report, CSimResults with one value sequence per
\* output, and the measured latency under Stitched_Design_Latency.
C11_StitchReturnsSimulationResults ==
    (pc = "done" /\ SimulatedStitch) =>
        /\ ret.kind = "return"
        /\ {"CSynthesisReport", "CSimResults", "Stitched_Design_Latency"} \subseteq DOMAIN ret.value
        /\ Len(ret.value["CSimResults"]) = Cardinality(LoggedNames(log))
        /\ ret.value["Stitched_Design_Latency"] = Str(LoggedLatency(log))

\* C12: for a well-formed log read_testbench_log returns a result that holds,
\* for each output name, a dense sequence of length max(index)+1 in which a
\* logged index carries a value logged for it and an index without a row is
\* zero, and the integer latency of the latency_cycles row.
C12_ReadLogReturnsDenseSequences ==
    (pc = "done" /\ call.op = "read_testbench_log"
        /\ "testbench_log.csv" \in fs /\ WellFormedLog(log)) =>
        /\ ret.kind = "return"
        /\ {"outputs", "latency_cycles"} \subseteq DOMAIN ret.value
        /\ ret.value["latency_cycles"] = LoggedLatency(log)
        /\ DOMAIN ret.value["outputs"] = LoggedNames(log)
        /\ \A n \in LoggedNames(log) :
            LET group == RowsOf(log, n)
                arr == ret.value["outputs"][n]
            IN  /\ DOMAIN arr = 0..SetMax({group[j].index : j \in DOMAIN group})
                /\ \A i \in DOMAIN arr :
                    IF \E j \in DOMAIN group : group[j].index = i
                    THEN \E j \in DOMAIN group : group[j].index = i /\ arr[i] = group[j].value
                    ELSE arr[i] = 0

\* C13: when the log file does not exist, reading it fails with
\* FileNotFoundError, which ends the stitch call that asked for it: the
\* reader hands no value back and is not called again.
C13_MissingLogRaisesFileNotFound ==
    (call.op = "stitch" /\ "read_testbench_log" \in StepSet /\ "testbench_log.csv" \notin fs) =>
        /\ pc = "done"
        /\ ret.kind = "raise" /\ ret.exc = "FileNotFoundError"
        /\ Len(SelectSeq(steps, LAMBDA st : st = "read_testbench_log")) = 1
        /\ "fold" \notin StepSet

(***************************************************************************)
(* Properties of the testbench generator and of the testbench it writes    *)
(* (checked under SpecTestbench).                                          *)
(***************************************************************************)
\* The generator has been called and has ended.
Generated == pc = "done" /\ call.op = "generate_verilog_testbench"

\* The generator has written a whole testbench.
Complete == Generated /\ ret.kind = "return"

\* The testbench is running or has run.
Simulated == Complete /\ tb.phase # "off"

\* C14: a port configuration with zero inputs or with zero outputs makes
\* generate_verilog_testbench fail with EmptyInterfaceError, and no testbench
\* text is written for it.
C14_EmptyInterfaceIsRejected ==
    (Generated /\ (Len(call.nn_config.inputs) = 0 \/ Len(call.nn_config.outputs) = 0)) =>
        /\ ret.kind = "raise" /\ ret.exc = "EmptyInterfaceError"
        /\ testbench = <<>>

\* Where the statements with the given op of the given port are.
Places(text, op, port) == {i \in DOMAIN text : text[i].op = op /\ text[i].port = port}

\* The pattern a statement of the transmission process belongs to: that of
\* the last pattern comment before it.
PatternAt(text, i) == text[SetMax({j \in 1..i : text[j].op = "pattern"})].a

\* Where in the events of the run the given ones are.
EventsOf(ev, port, pattern) ==
    {i \in DOMAIN tb.events :
        tb.events[i].ev = ev /\ tb.events[i].port = port /\ tb.events[i].pattern = pattern}

\* The events of the run, of any port and pattern.
EventsNamed(ev) == {i \in DOMAIN tb.events : tb.events[i].ev = ev}

\* The text drives, for the input l, the three patterns: zero, 1 <<
\* fractional_bits and zero in every batch slot, each in a loop of
\* fifo_depth beats.
DrivesThreePatterns(text, l) ==
    /\ \A p \in 1..3 : Cardinality({i \in Places(text, "pattern", l.name) : text[i].a = p}) = 1
    /\ \A i, j \in Places(text, "pattern", l.name) : i < j => text[i].a < text[j].a
    /\ Cardinality(Places(text, "for", l.name)) = 3
    /\ \A i \in Places(text, "for", l.name) : text[i].a = l.fifo_depth
    /\ \A p \in 1..3 :
        {text[i].a : i \in {k \in Places(text, "assign", l.name) : PatternAt(text, k) = p}}
            = 0..(l.batch_size - 1)
    /\ \A i \in Places(text, "assign", l.name) :
        text[i].c = IF PatternAt(text, i) = 2 THEN l.fractional_bits ELSE -1

\* The run has made, for the input l, its beats pattern after pattern, never
\* more than fifo_depth of a pattern and each after a wait on l's tready.
BeatsInOrder(l) ==
    /\ \A p \in 1..3 : Cardinality(EventsOf("beat", l.name, p)) <= l.fifo_depth
    /\ \A p, q \in 1..3 : \A i \in EventsOf("beat", l.name, p), j \in EventsOf("beat", l.name, q) :
        i < j => p <= q
    /\ \A p \in 1..3 : \A i \in EventsOf("beat", l.name, p) :
        /\ i > 1 /\ tb.events[i - 1] = Event("ready", l.name, p, 0)
        /\ tb.events[i].data =
            [k \in 1..l.batch_size |->
                IF p = 2 THEN SlotValue(TotalBits(l), l.fractional_bits) ELSE 0]

\* C15: for every input port with fifo_depth d the transmission process
\* drives three patterns in the order zero, 1 << fractional_bits in every
\* batch slot, zero; each pattern is d beats, each beat after a wait on that
\* input's tready (3*d beats in all); and the process waits for ap_done
\* once, before it writes the latency record.
C15_ThreePatternsOfDepthBeats ==
    Complete =>
        /\ \A n \in DOMAIN call.nn_config.inputs :
            DrivesThreePatterns(testbench, call.nn_config.inputs[n])
        /\ Cardinality(Places(testbench, "wait_done", "")) = 1
        /\ Cardinality(Places(testbench, "fwrite_latency", "")) = 1
        /\ \A i \in Places(testbench, "wait_done", ""), j \in Places(testbench, "fwrite_latency", "") :
            i < j
        /\ tb.phase # "off" =>
            /\ \A n \in DOMAIN call.nn_config.inputs : BeatsInOrder(call.nn_config.inputs[n])
            /\ Cardinality(EventsNamed("done")) <= 1
            /\ \A i \in EventsNamed("latency") :
                /\ \E j \in EventsNamed("done") : j < i
                /\ \A n \in DOMAIN call.nn_config.inputs : \A p \in 1..3 :
                    Cardinality(EventsOf("beat", call.nn_config.inputs[n].name, p))
                        = call.nn_config.inputs[n].fifo_depth

\* A run of a testbench with two inputs has sent every pattern, has seen
\* ap_done and has written the latency.
C15_Witness ==
    /\ Simulated /\ Len(call.nn_config.inputs) = 2
    /\ call.nn_config.inputs[1].fifo_depth = 2
    /\ tb.stalls > 0
    /\ Cardinality(EventsNamed("beat")) = 9
    /\ EventsNamed("latency") # {}

\* C16: in every run of a testbench with one or more inputs the start cycle
\* is sampled after the last beat of the second pattern of every input and
\* before the first beat of the third pattern of any input, the end cycle is
\* sampled when ap_done is asserted, and the logged latency is the end cycle
\* minus the start cycle.
C16_LatencyFromThirdPatternToDone ==
    (Simulated /\ Len(call.nn_config.inputs) >= 1) =>
        /\ \A s \in EventsNamed("start_cycle") :
            /\ \A n \in DOMAIN call.nn_config.inputs :
                LET l == call.nn_config.inputs[n]
                IN  /\ Cardinality(EventsOf("beat", l.name, 2)) = l.fifo_depth
                    /\ \A i \in EventsOf("beat", l.name, 1) \cup EventsOf("beat", l.name, 2) : i < s
                    /\ \A i \in EventsOf("beat", l.name, 3) : s < i
            /\ tb.start_cycle = tb.events[s].data
        /\ Cardinality(EventsNamed("start_cycle")) <= 1
        /\ \A e \in EventsNamed("end_cycle") :
            /\ e > 1 /\ tb.events[e - 1] = Event("done", "", 0, 1)
            /\ tb.end_cycle = tb.events[e].data
            /\ EventsNamed("start_cycle") # {}
        /\ \A i \in EventsNamed("latency") :
            /\ EventsNamed("end_cycle") # {}
            /\ tb.events[i].data = tb.end_cycle - tb.start_cycle
            /\ tb.events[i].data >= 0
            /\ tb.csv_file # "failed"
            /\ Cardinality({r \in DOMAIN log : log[r].output_name = "latency_cycles"}) = 1
            /\ \A r \in DOMAIN log : log[r].output_name = "latency_cycles" =>
                log[r] = LatencyRow(tb.end_cycle - tb.start_cycle)

\* A run in which the design held an input back has ended with a latency of
\* more than the beats of the third pattern in the log.
C16_Witness ==
    /\ Simulated /\ Len(call.nn_config.inputs) = 2 /\ tb.phase = "finished"
    /\ tb.stalls > 0
    /\ tb.end_cycle - tb.start_cycle > 3
    /\ \E r \in DOMAIN log : log[r] = LatencyRow(tb.end_cycle - tb.start_cycle)

(***************************************************************************)
(* Properties of the fixed pattern's slot (checked under SpecFixedPoint).  *)
(***************************************************************************)
\* The slot of the fixed pattern has been driven and decoded.
Decoded == pc = "done" /\ call.op = "fixed_pattern"

PragmaDone == pc = "done" /\ call.op = "_make_array_pragma"

PragmaItems == call.variable.pragma.items

\* The call returned a line (not None).
ReturnedLine == ret.kind = "return" /\ ~ret.value.isNone

\* The texts of the words of the returned line that carry a clause.
Clauses == {ret.value.words[k].text : k \in DOMAIN ret.value.words}

HasWord(word) == \E k \in DOMAIN ret.value.words : ret.value.words[k] = word

\* The returned line is an ARRAY_<MODE> line for the call's variable.
IsArrayLine(upper) ==
    /\ ReturnedLine
    /\ ret.value.words[1] = Word("#pragma HLS ARRAY_", Tok(upper))
    /\ HasWord(Word("variable=", Tok(call.variable.name)))

\* The returned line is a STREAM line for the call's variable.
IsStreamLine ==
    /\ ReturnedLine
    /\ ret.value.words[1] = Word("#pragma HLS ", Tok("STREAM"))
    /\ HasWord(Word("variable=", Tok(call.variable.name)))

TupleOf(len) == call.variable.pragma.isTuple /\ Len(PragmaItems) = len

\* C19: a tuple pragma ('partition' or 'reshape', 'complete') is rendered as
\* an ARRAY_PARTITION / ARRAY_RESHAPE line with no factor= clause; a tuple
\* (mode, t, n) with t cyclic or block as such a line containing factor=n; a
\* tuple ('stream', d) as a STREAM line containing depth=d and no factor=.
C19_TuplePragmaRendering ==
    PragmaDone =>
        /\ (TupleOf(2) /\ PragmaItems[1] \in ArrayModes /\ PragmaItems[2] = Tok("complete")) =>
                /\ IsArrayLine(Upper(PragmaItems[1]).s)
                /\ "factor=" \notin Clauses
        /\ (TupleOf(3) /\ PragmaItems[1] \in ArrayModes
                /\ PragmaItems[2] \in {Tok("cyclic"), Tok("block")}) =>
                /\ IsArrayLine(Upper(PragmaItems[1]).s)
                /\ HasWord(Word("", PragmaItems[2]))
                /\ HasWord(Word("factor=", PragmaItems[3]))
        /\ (TupleOf(2) /\ PragmaItems[1] = Tok("stream") /\ PragmaItems[2].kind = "int") =>
                /\ IsStreamLine
                /\ HasWord(Word("depth=", PragmaItems[2]))
                /\ "factor=" \notin Clauses

\* The mode of the call's pragma: the single token, or the first element of
\* the tuple.
HasMode == Len(PragmaItems) >= 1

PragmaMode == PragmaItems[1]

\* C20: for a pragma whose mode is none of partition, reshape, stream the call
\* fails with ConfigurationError; it never returns a line or None.
C20_UnrecognisedModeFails ==
    (PragmaDone /\ HasMode /\ PragmaMode \notin ArrayModes \cup {Tok("stream")}) =>
        ret.kind = "raise" /\ ret.exc = "ConfigurationError"

(***************************************************************************)
(* Properties of write_project_cpp (checked under SpecProjectCpp).         *)
(***************************************************************************)
CppRunning == call.op = "write_project_cpp"

\* The template lines whose expansion is the load-weights expansion, among
\* the lines written so far.
LoadWeightsExpansions ==
    {k \in DOMAIN fout :
        /\ Contains(call.template[k], "insert load weights")
        /\ call.template[k].markers \cap
             {"myproject", "insert header", "insert namespace-start", "insert namespace-end"} = {}}

PiecesOf(k, kind) == {p \in DOMAIN fout[k] : fout[k][p].kind = kind}

CodeOf(k, text) == {p \in PiecesOf(k, "code") : fout[k][p].text = text}

\* The loader variant and the size a weight's encoding calls for.
LoaderOf(w) ==
    CASE w.weight_class = "CompressedWeightVariable" ->
            <<"nnet::load_compressed_weights_from_txt", w.nonzeros>>
      [] w.weight_class = "ExponentWeightVariable" ->
            <<"nnet::load_exponent_weights_from_txt", w.data_length>>
      [] OTHER -> <<"nnet::load_weights_from_txt", w.data_length>>

\* The loader calls of expansion k that load weight w as its encoding asks.
CallsFor(k, w) ==
    {p \in PiecesOf(k, "loader") :
        /\ fout[k][p].name = w.name
        /\ fout[k][p].file = w.name
        /\ fout[k][p].type_name = w.type_name
        /\ fout[k][p].loader = LoaderOf(w)[1]
        /\ fout[k][p].size = LoaderOf(w)[2]}

\* Expansion k holds exactly one loader call per weight of the model.
OneLoaderCallPerWeight(k) ==
    LET weights == WeightVariables(call.model)
    IN  /\ \A j \in DOMAIN weights : Cardinality(CallsFor(k, weights[j])) = 1
        /\ Cardinality(PiecesOf(k, "loader")) = Len(weights)

\* The pieces of the loaded_weights guard in expansion k.
GuardDeclarations(k) == CodeOf(k, "static bool loaded_weights = false;")

GuardTests(k) == CodeOf(k, "if (!loaded_weights) {")

GuardSets(k) == CodeOf(k, "loaded_weights = true;")

TokenOf(token) == call.variable.pragma = TokenPragma(Tok(token))

\* C30: a pragma given as the single token 'partition', 'reshape' or 'stream'
\* makes the call return a line without raising: 'partition' and 'reshape'
\* give a complete ARRAY_PARTITION / ARRAY_RESHAPE line with no factor=
\* clause, 'stream' gives a STREAM line.
C30_SingleTokenRenders ==
    PragmaDone =>
        /\ \A token \in {"partition", "reshape"} :
                TokenOf(token) =>
                    /\ IsArrayLine(Upper(Tok(token)).s)
                    /\ HasWord(Word("", Tok("complete")))
                    /\ "factor=" \notin Clauses
        /\ TokenOf("stream") => IsStreamLine

(***************************************************************************)
(* Properties of the log the running testbench writes (checked under       *)
(* SpecTestbench).                                                         *)
(***************************************************************************)
\* At the clock edge being served the output's valid and ready are both high.
Transfers(name) ==
    tb.out[name].tvalid = 1 /\ Statements(testbench, "init_tready")[1].a = 1

\* The sample records of one transfer of the output: one per batch slot,
\* with the slot indices 0..b-1 in order.
IsSampleBlock(rows, name) ==
    LET b == CaptureOf(testbench, name).c
    IN  /\ Len(rows) = b
        /\ \A k \in 1..b : rows[k].output_name = name /\ rows[k].index = k - 1

\* The rows the step appends to the log (none if the log does not grow).
Appended == IF Len(log') >= Len(log) THEN SubSeq(log', Len(log) + 1, Len(log')) ELSE <<>>

\* C22: at every clock edge each output whose valid and ready are both high
\* gets one sample record per batch slot, indices 0..b-1, appended to the
\* log, and an output whose valid or ready is low gets none: the number of
\* an output's sample records is b times the number of its transfers.  (An
\* edge is served per output by its capture block; the end of the run may
\* not leave an output's transfer at the last edge unserved, and no other
\* step writes sample records.)
C22_OneRecordPerSlotPerTransfer ==
    [][tb.phase = "run" =>
        \A name \in OutputNames(testbench) :
            /\ (name \in tb.captures /\ tb'.phase = "run" /\ tb'.captures = tb.captures \ {name}) =>
                    IF Transfers(name)
                    THEN log' = log \o Appended /\ IsSampleBlock(Appended, name)
                    ELSE log' = log
            /\ (name \in tb.captures /\ tb'.phase # "run") => ~Transfers(name)
            /\ (tb'.phase = "run" /\ tb'.captures = tb.captures) =>
                    Len(RowsOf(log', name)) <= Len(RowsOf(log, name))]_vars

\* The run of the testbench has ended with the log written and closed.
CompletedRun == Simulated /\ tb.phase = "finished" /\ tb.csv_file = "closed"

LatencyRows == {k \in DOMAIN log : log[k].output_name = "latency_cycles"}

\* C23: in every completed run the log holds exactly one latency_cycles
\* record and it is the last record, so that no sample record follows it;
\* the header is the first line and every record follows it.
C23_LatencyRecordIsFinal ==
    CompletedRun =>
        /\ Len(log) >= 2
        /\ log[1] = HeaderRow
        /\ \A k \in 2..Len(log) : log[k] # HeaderRow
        /\ LatencyRows = {Len(log)}

(***************************************************************************)
(* Properties of the expansions of write_project_cpp (checked under        *)
(* SpecProjectCpp).                                                        *)
(***************************************************************************)
\* The markers in the order the chain tests them.
MarkerOrder ==
    <<"myproject", "insert header", "insert namespace-start", "insert namespace-end",
      "insert load weights", "insert IO", "insert layers">>

\* The written lines of the template whose first marker, in that order, is
\* the given one.
ExpansionsOf(marker) ==
    {k \in DOMAIN fout :
        \E n \in DOMAIN MarkerOrder :
            /\ MarkerOrder[n] = marker
            /\ Contains(call.template[k], marker)
            /\ \A j \in 1..(n - 1) : ~Contains(call.template[k], MarkerOrder[j])}

\* The statements the layers of the model have, in graph order.
GraphStatements ==
    Flatten([k \in DOMAIN call.model.layers |->
                IF call.model.layers[k].function_cpp.isNone THEN <<>>
                ELSE call.model.layers[k].function_cpp.stmts])

\* The statements of expansion k, in the order written.
WrittenStatements(k) ==
    LET written == SelectSeq(fout[k], LAMBDA piece : piece.kind = "statement")
    IN  [j \in DOMAIN written |-> written[j].stmt]

\* The variables of the layers that are to be declared: those that are no
\* model input or output and have a definition.
DeclaredVariables ==
    {v \in UNION {Range(call.model.layers[k].variables) : k \in DOMAIN call.model.layers} :
        /\ v \notin Range(call.model.inputs) \cup Range(call.model.outputs)
        /\ v.definition}

\* C26: in the layer-body expansion every variable declaration and every
\* memory pragma, of every layer, comes before the first executable statement
\* of any layer, every variable to declare is declared, and the executable
\* statements appear in graph order.
C26_DeclarationsBeforeStatements ==
    CppRunning =>
        \A k \in ExpansionsOf("insert layers") :
            /\ \A d \in PiecesOf(k, "declaration") \cup PiecesOf(k, "pragma"),
                  s \in PiecesOf(k, "statement") : d < s
            /\ \A v \in DeclaredVariables :
                    \E d \in PiecesOf(k, "declaration") : fout[k][d].name = v.name
            /\ WrittenStatements(k) = GraphStatements

\* A finished call whose first layer has a statement and whose second layer
\* owns a variable to declare, with the layer body written.
C26_Witness ==
    /\ CppRunning /\ pc = "done" /\ ret.kind = "return"
    /\ Len(call.model.layers) = 2
    /\ call.model.layers[1].name = "fc1"
    /\ call.model.layers[2].name = "merge1"
    /\ \E k \in ExpansionsOf("insert layers") :
        /\ Cardinality(PiecesOf(k, "declaration")) = 2
        /\ Cardinality(PiecesOf(k, "pragma")) = 1
        /\ Cardinality(PiecesOf(k, "statement")) = 2

\* C27: in the layer-body expansion no variable is declared more than once,
\* also when several layers own it, no model input or output is declared,
\* and each declared variable that has a pragma is immediately followed by
\* that variable's pragma line.
C27_EachVariableDeclaredOnce ==
    CppRunning =>
        \A k \in ExpansionsOf("insert layers") :
            /\ \A d, e \in PiecesOf(k, "declaration") :
                    fout[k][d].name = fout[k][e].name => d = e
            /\ \A d \in PiecesOf(k, "declaration") :
                    fout[k][d].name \notin
                        Range(Names(call.model.inputs)) \cup Range(Names(call.model.outputs))
            /\ \A d \in PiecesOf(k, "declaration") :
                    \A v \in DeclaredVariables :
                        (v.name = fout[k][d].name /\ TruthyPragma(v.pragma)) =>
                            /\ d + 1 \in PiecesOf(k, "pragma")
                            /\ fout[k][d + 1].name = v.name

\* For each statement the layers of the model have, in graph order, the place
\* of its layer in the graph.
GraphOwners ==
    Flatten([k \in DOMAIN call.model.layers |->
                IF call.model.layers[k].function_cpp.isNone THEN <<>>
                ELSE [s \in DOMAIN call.model.layers[k].function_cpp.stmts |-> k]])

\* Where in expansion k the j-th statement is written.
StatementPlace(k, j) ==
    CHOOSE p \in PiecesOf(k, "statement") :
        Cardinality({q \in PiecesOf(k, "statement") : q <= p}) = j

\* The layer that owns the statement written at place p of expansion k.
OwnerAt(k, p) ==
    call.model.layers[GraphOwners[Cardinality({q \in PiecesOf(k, "statement") : q <= p})]]

\* The statement at place p is the first of its layer.
FirstOfLayer(k, p) ==
    LET j == Cardinality({q \in PiecesOf(k, "statement") : q <= p})
    IN  j = 1 \/ GraphOwners[j - 1] # GraphOwners[j]

\* The trace calls of expansion k follow the statements of the layer they
\* name, and are written only when tracing is enabled for the model and for
\* that layer.
TraceCallsOnlyWhenEnabled(k) ==
    \A t \in PiecesOf(k, "save_layer_output") :
        /\ {q \in PiecesOf(k, "statement") : q < t} # {}
        /\ LET owner == OwnerAt(k, SetMax({q \in PiecesOf(k, "statement") : q < t}))
           IN  /\ owner.name = fout[k][t].layer
               /\ call.model.trace_output /\ owner.trace

PragmaNames(k) ==
    LET written == SelectSeq(fout[k], LAMBDA piece : piece.kind = "pragma")
    IN  [j \in DOMAIN written |-> written[j].name]

\* The last piece of expansion k is the pipeline pragma, which carries an
\* II= value exactly when the style is pipeline and an interval is configured.
PipelinePragmaIsLast(k) ==
    /\ PiecesOf(k, "pipeline") = {Len(fout[k])}
    /\ fout[k][Len(fout[k])].style = Upper(Tok(call.model.pipeline_style))
    /\ IF call.model.pipeline_style = "pipeline" /\ call.model.pipeline_ii # NoneItem
       THEN fout[k][Len(fout[k])].ii = call.model.pipeline_ii
       ELSE fout[k][Len(fout[k])].ii = NoneItem

\* After the marker line, expansion k has one memory-layout pragma per input
\* in input order, one per output in output order, then one interface pragma.
PortPragmasThenInterface(k) ==
    LET ports == Names(call.model.inputs) \o Names(call.model.outputs)
    IN  /\ PragmaNames(k) = ports
        /\ PiecesOf(k, "pragma") = 2..(Len(ports) + 1)
        /\ PiecesOf(k, "interface") = {Len(ports) + 2}
        /\ Len(fout[k]) = Len(ports) + 3

\* C29 as stated: for io_parallel and for io_stream the IO-pragma expansion
\* has its lines in the order one memory-layout pragma per input, one per
\* output, the interface pragma, the pipeline pragma last; the pipeline
\* pragma carries II= exactly when the style is pipeline and an initiation
\* interval is configured.
C29_PortPragmasInterfacePipeline ==
    CppRunning =>
        \A k \in ExpansionsOf("insert IO") :
            call.model.io_type \in {"io_parallel", "io_stream"} =>
                PortPragmasThenInterface(k) /\ PipelinePragmaIsLast(k)

\* C29 as amended: for io_parallel the order is as stated, with the ap_vld
\* interface pragma; for io_stream no memory-layout pragma is written: the
\* axis interface pragma comes first, then a bram interface pragma if the
\* model has weights stored in block memory, and the pipeline pragma last,
\* with II= exactly when the style is pipeline and an interval is configured.
C29_IoPragmaOrderByTransport ==
    CppRunning =>
        \A k \in ExpansionsOf("insert IO") :
            /\ call.model.io_type = "io_parallel" =>
                /\ PortPragmasThenInterface(k)
                /\ \A p \in PiecesOf(k, "interface") : fout[k][p].mode = "ap_vld"
                /\ PipelinePragmaIsLast(k)
            /\ call.model.io_type = "io_stream" =>
                LET brams == SelectBrams(WeightVariables(call.model))
                    n == IF brams = <<>> THEN 1 ELSE 2
                IN  /\ PiecesOf(k, "pragma") = {}
                    /\ PiecesOf(k, "interface") = 2..(n + 1)
                    /\ fout[k][2].mode = "axis"
                    /\ fout[k][2].ports = <<Names(call.model.inputs), Names(call.model.outputs)>>
                    /\ brams # <<>> =>
                        fout[k][3].mode = "bram" /\ fout[k][3].ports = <<Names(brams)>>
                    /\ Len(fout[k]) = n + 2
                    /\ PipelinePragmaIsLast(k)

\* A finished io_parallel call with two inputs and two outputs and the
\* IO-pragma expansion written.
C29_Witness ==
    /\ CppRunning /\ pc = "done" /\ ret.kind = "return"
    /\ call.model.io_type = "io_parallel"
    /\ Len(call.model.inputs) = 2 /\ Len(call.model.outputs) = 2
    /\ \E k \in ExpansionsOf("insert IO") : Cardinality(PiecesOf(k, "pragma")) = 4

\* A finished io_stream call for a model with a weight in block memory and
\* the IO-pragma expansion written.
C29_WitnessStream ==
    /\ CppRunning /\ pc = "done" /\ ret.kind = "return"
    /\ call.model.io_type = "io_stream"
    /\ call.model.pipeline_style = "dataflow"
    /\ \E k \in ExpansionsOf("insert IO") : Cardinality(PiecesOf(k, "interface")) = 2


(***************************************************************************)
(* Properties of the template writers (checked under SpecWriters).         *)
(***************************************************************************)
WriterRunning == call.op \in Writers

\* The template line the k-th write was made for.
LineOf(k) == call.template[k]

HasToken(line) == Contains(line, "myproject") \/ Contains(line, "MYPROJECT")

HasMarker(line) == \E k \in DOMAIN WriterMarkers(call.op) : Contains(line, WriterMarkers(call.op)[k])

\* The k-th write is the line with a token replaced and nothing else.
TokenReplaced(k) ==
    /\ Len(fout[k]) = 1
    /\ fout[k][1].kind = "replaced"
    /\ fout[k][1].line.markers \subseteq LineOf(k).markers

\* The k-th write is the text generated for a marker of the line: nothing of
\* it is a token replacement, and what it keeps of the template is the line.
MarkerExpanded(k) ==
    \A p \in DOMAIN fout[k] :
        /\ fout[k][p].kind # "replaced"
        /\ fout[k][p].kind = "line" => fout[k][p].line = LineOf(k)
        /\ fout[k][p].kind = "expansion" => Contains(LineOf(k), fout[k][p].marker)

PassedThrough(k) == fout[k] = <<Copy(LineOf(k))>>

\* The writers of one graph.
GraphWriters == Writers \ {"write_bridge_multigraph"}

\* C24: in every template writer each template line is handled by exactly
\* one action, chosen in the priority token replacement, directive
\* expansion, passthrough: a line with the project-name token is only
\* token-replaced, even if it carries a marker; a line with a marker and no
\* token is expanded; a line with neither is written unchanged; and the
\* writes are made in template order, one per line.
C24_TokenThenDirectiveThenPassthrough ==
    (call.op \in GraphWriters /\ pc # "idle") =>
        /\ Len(fout) <= Len(call.template)
        /\ \A k \in DOMAIN fout :
            /\ HasToken(LineOf(k)) => TokenReplaced(k)
            /\ (~HasToken(LineOf(k)) /\ HasMarker(LineOf(k))) => MarkerExpanded(k)
            /\ (~HasToken(LineOf(k)) /\ ~HasMarker(LineOf(k))) => PassedThrough(k)


\* The variants of the project-name token a writer tests for, first to last.
TestedTokens(writer) ==
    CASE writer \in {"write_project_header", "write_bridge", "write_bridge_multigraph"} ->
            <<"MYPROJECT", "myproject">>
      [] writer \in {"write_project_cpp", "write_test_bench"} -> <<"myproject">>
      [] OTHER -> <<>>

HasTestedToken(line) ==
    \E k \in DOMAIN TestedTokens(call.op) : Contains(line, TestedTokens(call.op)[k])

\* C24, amended: each writer makes one write per template line, in template
\* order, chosen in the priority token replacement, directive expansion,
\* passthrough, where the token replacement is for the variants the writer
\* tests: both in write_project_header and write_bridge, the lowercase one
\* in write_project_cpp and write_test_bench, none in write_defines and
\* write_parameters.  A line with a variant the writer does not test is
\* handled as a line without a token.
C24_TestedTokenThenDirectiveThenPassthrough ==
    (call.op \in GraphWriters /\ pc # "idle") =>
        /\ Len(fout) <= Len(call.template)
        /\ \A k \in DOMAIN fout :
            /\ HasTestedToken(LineOf(k)) => TokenReplaced(k)
            /\ (~HasTestedToken(LineOf(k)) /\ HasMarker(LineOf(k))) => MarkerExpanded(k)
            /\ (~HasTestedToken(LineOf(k)) /\ ~HasMarker(LineOf(k))) => PassedThrough(k)

\* A writer has returned after a line with a token and a marker was only
\* token-replaced, a line with a marker alone was expanded and a line with
\* neither was copied.
C24_Witness ==
    /\ call.op \in GraphWriters /\ pc = "done" /\ ret.kind = "return"
    /\ Len(fout) = Len(call.template)
    /\ \E k \in DOMAIN fout :
        HasTestedToken(LineOf(k)) /\ HasMarker(LineOf(k)) /\ TokenReplaced(k)
    /\ \E k \in DOMAIN fout : LineOf(k).markers = {} /\ PassedThrough(k)


\* The writers that test both variants of the project-name token.
TokenWriters == {"write_project_header", "write_bridge", "write_bridge_multigraph"}

\* What the k-th write keeps of the template holds no token.
NoTokenLeft(k) ==
    \A p \in DOMAIN fout[k] :
        fout[k][p].kind \in {"line", "replaced"} => ~HasToken(fout[k][p].line)

\* The k-th write puts the upper-cased project name where the uppercase
\* token was.
UpperReplaced(k) ==
    \E p \in DOMAIN fout[k] :
        /\ fout[k][p].kind = "replaced"
        /\ fout[k][p].project = UpperName(call.model.project_name)

\* The k-th write puts a project name where the lowercase token was.
LowerReplaced(k) ==
    \E p \in DOMAIN fout[k] :
        /\ fout[k][p].kind = "replaced"
        /\ fout[k][p].project # UpperName(call.model.project_name)

\* C25: for every template line that holds the project-name token in either
\* variant, write_project_header, write_bridge and write_bridge_multigraph
\* write the line with both variants replaced, the lowercase one by the
\* project name and the uppercase one by the upper-cased project name: no
\* token of the template is left in what they write.
C25_NoTokenRemains ==
    (call.op \in TokenWriters /\ pc # "idle") =>
        \A k \in DOMAIN fout :
            HasToken(LineOf(k)) =>
                /\ NoTokenLeft(k)
                /\ Contains(LineOf(k), "MYPROJECT") => UpperReplaced(k)
                /\ Contains(LineOf(k), "myproject") => LowerReplaced(k)


\* The template lines that carry the tb_input_writer marker and nothing
\* that the chain tests before it.
DumpLines == {k \in DOMAIN call.template : call.template[k].markers = {"insert tb_input_writer"}}

\* The inputs whose dump loop reads fifo_depth and batch_size from their
\* port descriptor: the streams of more than one dimension.
DescribedInputs ==
    {k \in DOMAIN call.model.graphs[1].inputs :
        /\ call.model.graphs[1].inputs[k].stream
        /\ Len(call.model.graphs[1].inputs[k].shape) # 1}

HasDescriptor(name) ==
    \E k \in DOMAIN call.model.nn_config.inputs : call.model.nn_config.inputs[k].name = name

\* The expansion needs a descriptor that nn_config['inputs'] does not hold.
DescriptorMissing ==
    /\ DumpLines # {}
    /\ \E k \in DescribedInputs : ~HasDescriptor(call.model.graphs[1].inputs[k].name)

\* No dump loop is written with None in the place of a descriptor field.
NoPlaceholderWritten ==
    \A k \in DOMAIN fout :
        \A p \in DOMAIN fout[k] :
            fout[k][p].kind = "tb_batch_loop" =>
                fout[k][p].fifo_depth # NoneItem /\ fout[k][p].batch_size # NoneItem

\* C21: when the tb_input_writer expansion of write_bridge_multigraph needs
\* the port descriptor of an input and the port-descriptor set has no entry
\* for that input, the call fails with MissingContextError, and no text with
\* a blank or a placeholder in the place of the missing field is written.
C21_MissingDescriptorFails ==
    (call.op = "write_bridge_multigraph" /\ pc # "idle") =>
        /\ NoPlaceholderWritten
        /\ (pc = "done" /\ DescriptorMissing) =>
                ret.kind = "raise" /\ ret.exc = "MissingContextError"

====
